---------------------------- MODULE Spec2Model ----------------------------
(***************************************************************************)
(* A model of the Traefik maintenance-warden middleware                    *)
(* (src/maintenance.go): the request gate ServeHTTP with its enablement    *)
(* resolution and bypass rules, the three maintenance content strategies,  *)
(* the file cache and the JWT claim extractor.                             *)
(*                                                                         *)
(* Go strings are sequences of one-character strings, so that prefix,      *)
(* suffix, substring, split and case folding are computed, not assumed.    *)
(* Response bodies and file contents are never taken apart by the code     *)
(* and are kept as TLA+ strings.                                           *)
(***************************************************************************)
EXTENDS Integers, Sequences, FiniteSets, TLC

(***************************************************************************)
(* Go's strings package, as far as the middleware uses it.                 *)
(***************************************************************************)
Lowers == <<"a","b","c","d","e","f","g","h","i","j","k","l","m",
            "n","o","p","q","r","s","t","u","v","w","x","y","z">>

Uppers == <<"A","B","C","D","E","F","G","H","I","J","K","L","M",
            "N","O","P","Q","R","S","T","U","V","W","X","Y","Z">>

DigitChars == <<"0","1","2","3","4","5","6","7","8","9">>

Range(s) == { s[i] : i \in 1..Len(s) }

IndexOf(tbl, c) == CHOOSE i \in 1..Len(tbl) : tbl[i] = c

LowerSet == Range(Lowers)

UpperSet == Range(Uppers)

DigitSet == Range(DigitChars)

IsLower(c) == c \in LowerSet

IsUpper(c) == c \in UpperSet

IsDigit(c) == c \in DigitSet

LowerChar(c) == IF IsUpper(c) THEN Lowers[IndexOf(Uppers, c)] ELSE c

UpperChar(c) == IF IsLower(c) THEN Uppers[IndexOf(Lowers, c)] ELSE c

\* strings.ToLower, on the ASCII strings of the model
ToLower(s) == [i \in 1..Len(s) |-> LowerChar(s[i])]

\* strings.HasPrefix
HasPrefix(s, prefix) ==
    /\ Len(s) >= Len(prefix)
    /\ SubSeq(s, 1, Len(prefix)) = prefix

\* strings.HasSuffix
HasSuffix(s, suffix) ==
    /\ Len(s) >= Len(suffix)
    /\ SubSeq(s, Len(s) - Len(suffix) + 1, Len(s)) = suffix

\* strings.Contains
Contains(s, substr) ==
    \E i \in 0..(Len(s) - Len(substr)) : SubSeq(s, i + 1, i + Len(substr)) = substr

\* strings.Split(s, sep) for a one-character separator: the fields between
\* the separators, in order (n separators give n+1 fields).
RECURSIVE SplitFrom(_, _, _, _)
SplitFrom(s, sep, i, field) ==
    IF i > Len(s) THEN <<field>>
    ELSE IF s[i] = sep THEN <<field>> \o SplitFrom(s, sep, i + 1, <<>>)
    ELSE SplitFrom(s, sep, i + 1, Append(field, s[i]))

Split(s, sep) == SplitFrom(s, sep, 1, <<>>)

\* s[n:], Go's slice of a string from byte offset n
SliceFrom(s, n) == SubSeq(s, n + 1, Len(s))

(***************************************************************************)
(* net/http's Header: a map from canonical key to a list of values.        *)
(***************************************************************************)
TokenSymbols == {"!", "#", "$", "%", "&", "'", "*", "+", "-", ".", "^", "_", "|", "~"}

IsTokenChar(c) == IsLower(c) \/ IsUpper(c) \/ IsDigit(c) \/ c \in TokenSymbols

\* textproto.CanonicalMIMEHeaderKey: the first letter and every letter after
\* a hyphen in upper case, the others in lower case; a key holding a byte
\* that is no token character is left as it is.
CanonicalMIMEHeaderKey(k) ==
    IF \E i \in 1..Len(k) : ~IsTokenChar(k[i]) THEN k
    ELSE [i \in 1..Len(k) |->
            IF i = 1 \/ k[i - 1] = "-" THEN UpperChar(k[i]) ELSE LowerChar(k[i])]

EmptyHeader == [k \in {} |-> <<>>]

\* Header.Get: the first value stored under the canonical key, "" if none
HeaderGet(h, key) ==
    LET k == CanonicalMIMEHeaderKey(key) IN
    IF k \in DOMAIN h /\ Len(h[k]) > 0 THEN h[k][1] ELSE <<>>

\* Header.Set: the key's values replaced by the one value
HeaderSet(h, key, value) ==
    LET k == CanonicalMIMEHeaderKey(key) IN
    [x \in DOMAIN h \cup {k} |-> IF x = k THEN <<value>> ELSE h[x]]

\* Header.Add: the value appended to the key's values
HeaderAdd(h, key, value) ==
    LET k == CanonicalMIMEHeaderKey(key) IN
    [x \in DOMAIN h \cup {k} |->
        IF x = k THEN (IF k \in DOMAIN h THEN Append(h[k], value) ELSE <<value>>)
        ELSE h[x]]

\* Header.Del
HeaderDel(h, key) ==
    LET k == CanonicalMIMEHeaderKey(key) IN
    [x \in DOMAIN h \ {k} |-> h[x]]

(***************************************************************************)
(* encoding/base64: RawURLEncoding.DecodeString.                           *)
(***************************************************************************)
\* the URL-safe alphabet: the value of a character is its index minus one
Base64URLAlphabet == Uppers \o Lowers \o DigitChars \o <<"-", "_">>

\* the printable ASCII characters, from code 32 (space) to code 126
Ascii == <<" ", "!", "\"", "#", "$", "%", "&", "'", "(", ")", "*", "+", ",", "-", ".", "/">>
         \o DigitChars \o <<":", ";", "<", "=", ">", "?", "@">>
         \o Uppers \o <<"[", "\\", "]", "^", "_", "BACKQUOTE">>
         \o Lowers \o <<"{", "|", "}", "~">>

\* a decoded byte outside the printable range: never valid outside a JSON
\* string, and kept as one opaque character inside one
NonPrintable == "NP"

ByteToChar(b) == IF b >= 32 /\ b <= 126 THEN Ascii[b - 31] ELSE NonPrintable

Base64URLSet == Range(Base64URLAlphabet)

IsBase64Char(c) == c \in Base64URLSet

Base64Val(c) == IndexOf(Base64URLAlphabet, c) - 1

Pow2(n) == IF n = 0 THEN 1 ELSE IF n = 2 THEN 4 ELSE 16

\* Byte j (from 0) of the decoded data: the eight bits at bit offset 8j of
\* the six-bit values, which lie in characters i and i+1, i = 8j div 6.
Base64Byte(s, j) ==
    LET i == (8 * j) \div 6
        r == (8 * j) % 6
        v == Base64Val(s[i + 1]) * 64 + Base64Val(s[i + 2])
    IN (v \div Pow2(4 - r)) % 256

\* DecodeString without padding: an error on a character outside the
\* alphabet ("=" included) and on a length of 1 modulo 4; the bits left
\* over in the last character are dropped.
Base64RawURLDecode(s) ==
    IF \E i \in 1..Len(s) : ~IsBase64Char(s[i]) THEN [err |-> TRUE, bytes |-> <<>>]
    ELSE IF Len(s) % 4 = 1 THEN [err |-> TRUE, bytes |-> <<>>]
    ELSE [err |-> FALSE,
          bytes |-> [j \in 1..((Len(s) * 6) \div 8) |-> ByteToChar(Base64Byte(s, j - 1))]]

(***************************************************************************)
(* encoding/json: Unmarshal into a map[string]interface{}.  A JSON value   *)
(* is a record tagged by t: "string" (s), "number" (neg, mant, dp: the     *)
(* decimal digits without leading and trailing zeros and the position of   *)
(* the decimal point, as strconv keeps a float64 of up to 15 significant   *)
(* digits), "bool" (b), "null", "array" (a) and "object" (o, the members   *)
(* in order, each [k, v]).                                                  *)
(***************************************************************************)
JString(s) == [t |-> "string", s |-> s]

JNumber(neg, mant, dp) == [t |-> "number", neg |-> neg, mant |-> mant, dp |-> dp]

JBool(b) == [t |-> "bool", b |-> b]

JNull == [t |-> "null"]

JArray(a) == [t |-> "array", a |-> a]

JObject(o) == [t |-> "object", o |-> o]

ParseFail == [ok |-> FALSE, v |-> JNull, pos |-> 0]

ParseOk(v, pos) == [ok |-> TRUE, v |-> v, pos |-> pos]

At(s, i) == IF i >= 1 /\ i <= Len(s) THEN s[i] ELSE "EOF"

RECURSIVE SkipSpace(_, _)
SkipSpace(s, i) == IF At(s, i) = " " THEN SkipSpace(s, i + 1) ELSE i

HexChars == DigitSet \cup {"a", "b", "c", "d", "e", "f", "A", "B", "C", "D", "E", "F"}

\* the characters of a string literal whose opening quote is before i
RECURSIVE ScanString(_, _, _)
ScanString(s, i, acc) ==
    LET c == At(s, i)
        e == At(s, i + 1)
    IN IF c = "EOF" THEN ParseFail
       ELSE IF c = "\"" THEN ParseOk(acc, i + 1)
       ELSE IF c = "\\" THEN
            IF e \in {"\"", "\\", "/"} THEN ScanString(s, i + 2, Append(acc, e))
            ELSE IF e \in {"b", "f", "n", "r", "t"}
                 THEN ScanString(s, i + 2, Append(acc, NonPrintable))
            ELSE IF e = "u" /\ \A k \in 2..5 : At(s, i + k) \in HexChars
                 THEN ScanString(s, i + 6, Append(acc, NonPrintable))
            ELSE ParseFail
       ELSE ScanString(s, i + 1, Append(acc, c))

\* the end of the run of digits that starts at i
DigitsEnd(s, i) ==
    CHOOSE j \in i..(Len(s) + 1) :
        /\ \A k \in i..(j - 1) : IsDigit(s[k])
        /\ ~IsDigit(At(s, j))

RECURSIVE DigitsValue(_)
DigitsValue(d) ==
    IF Len(d) = 0 THEN 0
    ELSE 10 * DigitsValue(SubSeq(d, 1, Len(d) - 1)) + (IndexOf(DigitChars, d[Len(d)]) - 1)

\* digits and decimal point position without leading and trailing zeros
RECURSIVE NormalizeDecimal(_, _, _)
NormalizeDecimal(neg, d, dp) ==
    IF Len(d) = 0 THEN JNumber(neg, <<>>, 0)
    ELSE IF d[1] = "0" THEN NormalizeDecimal(neg, Tail(d), dp - 1)
    ELSE IF d[Len(d)] = "0" THEN NormalizeDecimal(neg, SubSeq(d, 1, Len(d) - 1), dp)
    ELSE JNumber(neg, d, dp)

\* a number: -? (0 | [1-9][0-9]*) (. [0-9]+)? ([eE] [+-]? [0-9]+)?
\* read in four steps: the sign (the digits start at a), the integer part
\* (to intEnd), the fraction (to fracEnd) and the exponent (to expEnd)
ParseNumber(s, i) ==
    LET finish(neg, a, intEnd, fracEnd, hasExp, expNeg, expStart, expEnd) ==
            IF hasExp /\ expEnd = expStart THEN ParseFail
            ELSE ParseOk(
                    NormalizeDecimal(
                        neg,
                        SubSeq(s, a, intEnd - 1) \o SubSeq(s, intEnd + 1, fracEnd - 1),
                        (intEnd - a)
                        + (IF ~hasExp THEN 0
                           ELSE IF expNeg
                                THEN 0 - DigitsValue(SubSeq(s, expStart, expEnd - 1))
                                ELSE DigitsValue(SubSeq(s, expStart, expEnd - 1)))),
                    expEnd)
        exponent(neg, a, intEnd, fracEnd, hasExp, expStart) ==
            finish(neg, a, intEnd, fracEnd, hasExp, hasExp /\ At(s, fracEnd + 1) = "-",
                   expStart, IF hasExp THEN DigitsEnd(s, expStart) ELSE fracEnd)
        fraction(neg, a, intEnd, hasFrac, fracEnd) ==
            IF hasFrac /\ fracEnd = intEnd + 1 THEN ParseFail
            ELSE exponent(neg, a, intEnd, fracEnd, At(s, fracEnd) \in {"e", "E"},
                          IF At(s, fracEnd + 1) \in {"+", "-"}
                          THEN fracEnd + 2 ELSE fracEnd + 1)
        integer(neg, a, intEnd) ==
            IF intEnd = a THEN ParseFail
            ELSE fraction(neg, a, intEnd, At(s, intEnd) = ".",
                          IF At(s, intEnd) = "." THEN DigitsEnd(s, intEnd + 1) ELSE intEnd)
        sign(neg, a) ==
            integer(neg, a, IF At(s, a) = "0" THEN a + 1 ELSE DigitsEnd(s, a))
    IN sign(At(s, i) = "-", IF At(s, i) = "-" THEN i + 1 ELSE i)

IsLiteral(s, i, word) == i + Len(word) - 1 <= Len(s) /\ SubSeq(s, i, i + Len(word) - 1) = word

\* a scanned string literal as a value
StringValue(str) == IF str.ok THEN ParseOk(JString(str.v), str.pos) ELSE ParseFail

RECURSIVE ParseValue(_, _), ParseMembers(_, _, _), ParseElems(_, _, _)
\* the value that starts at i, after white space
ParseValueAt(s, i, c, inner) ==
    IF c = "{" THEN
        (IF At(s, inner) = "}" THEN ParseOk(JObject(<<>>), inner + 1)
         ELSE ParseMembers(s, inner, <<>>))
    ELSE IF c = "[" THEN
        (IF At(s, inner) = "]" THEN ParseOk(JArray(<<>>), inner + 1)
         ELSE ParseElems(s, i + 1, <<>>))
    ELSE IF c = "\"" THEN StringValue(ScanString(s, i + 1, <<>>))
    ELSE IF c = "t" THEN
        (IF IsLiteral(s, i, <<"t", "r", "u", "e">>)
         THEN ParseOk(JBool(TRUE), i + 4) ELSE ParseFail)
    ELSE IF c = "f" THEN
        (IF IsLiteral(s, i, <<"f", "a", "l", "s", "e">>)
         THEN ParseOk(JBool(FALSE), i + 5) ELSE ParseFail)
    ELSE IF c = "n" THEN
        (IF IsLiteral(s, i, <<"n", "u", "l", "l">>)
         THEN ParseOk(JNull, i + 4) ELSE ParseFail)
    ELSE IF c = "-" \/ IsDigit(c) THEN ParseNumber(s, i)
    ELSE ParseFail

ParseValueFrom(s, i) == ParseValueAt(s, i, At(s, i), SkipSpace(s, i + 1))

ParseValue(s, i0) == ParseValueFrom(s, SkipSpace(s, i0))

\* the members of an object from the key at i to the closing brace
MemberEnd(s, acc2, next) ==
    IF At(s, next) = "," THEN ParseMembers(s, SkipSpace(s, next + 1), acc2)
    ELSE IF At(s, next) = "}" THEN ParseOk(JObject(acc2), next + 1)
    ELSE ParseFail

MemberValue(s, acc, key, val) ==
    IF ~val.ok THEN ParseFail
    ELSE MemberEnd(s, Append(acc, [k |-> key.v, v |-> val.v]), SkipSpace(s, val.pos))

MemberColon(s, acc, key, colon) ==
    IF At(s, colon) # ":" THEN ParseFail
    ELSE MemberValue(s, acc, key, ParseValue(s, colon + 1))

MemberKey(s, i, acc, key) ==
    IF At(s, i) # "\"" \/ ~key.ok THEN ParseFail
    ELSE MemberColon(s, acc, key, SkipSpace(s, key.pos))

ParseMembers(s, i, acc) == MemberKey(s, i, acc, ScanString(s, i + 1, <<>>))

\* the elements of an array from the value at i to the closing bracket
ElemEnd(s, acc2, next) ==
    IF At(s, next) = "," THEN ParseElems(s, next + 1, acc2)
    ELSE IF At(s, next) = "]" THEN ParseOk(JArray(acc2), next + 1)
    ELSE ParseFail

ElemValue(s, acc, val) ==
    IF ~val.ok THEN ParseFail
    ELSE ElemEnd(s, Append(acc, val.v), SkipSpace(s, val.pos))

ParseElems(s, i, acc) == ElemValue(s, acc, ParseValue(s, i))

\* json.Unmarshal(payloadBytes, &claims) with claims a map[string]interface{}:
\* one value and nothing after it; an object fills the map, null leaves it
\* nil, any other value is a type error.
UnmarshalResult(bytes, r) ==
    IF ~r.ok THEN [err |-> TRUE, claims |-> <<>>]
    ELSE IF SkipSpace(bytes, r.pos) # Len(bytes) + 1 THEN [err |-> TRUE, claims |-> <<>>]
    ELSE IF r.v.t = "object" THEN [err |-> FALSE, claims |-> r.v.o]
    ELSE IF r.v.t = "null" THEN [err |-> FALSE, claims |-> <<>>]
    ELSE [err |-> TRUE, claims |-> <<>>]

JSONUnmarshalMap(bytes) == UnmarshalResult(bytes, ParseValue(bytes, 1))

\* value, ok := claims[claimName]: of members with the same key the last one
\* read stays in the map
MapHas(claims, name) == \E i \in 1..Len(claims) : claims[i].k = name

MapGet(claims, name) ==
    LET last == CHOOSE i \in 1..Len(claims) :
                    /\ claims[i].k = name
                    /\ \A j \in (i + 1)..Len(claims) : claims[j].k # name
    IN claims[last].v

(***************************************************************************)
(* fmt.Sprintf with the verbs %g, %t and %v, as getJWTClaimValue uses it.  *)
(***************************************************************************)
RECURSIVE NatToChars(_)
NatToChars(n) ==
    IF n < 10 THEN <<DigitChars[n + 1]>>
    ELSE Append(NatToChars(n \div 10), DigitChars[(n % 10) + 1])

\* the exponent at which %g turns to the exponent form when the precision
\* is the shortest one that reads back the same float64
ShortestEPrec == 6

\* strconv's %e: d.ddde+XX, the exponent with at least two digits
FmtE(mant, exp) ==
    LET absExp == IF exp < 0 THEN 0 - exp ELSE exp IN
    <<mant[1]>>
    \o (IF Len(mant) > 1 THEN <<".">> \o Tail(mant) ELSE <<>>)
    \o <<"e", IF exp < 0 THEN "-" ELSE "+">>
    \o (IF absExp < 10 THEN <<"0">> ELSE <<>>) \o NatToChars(absExp)

\* strconv's %f with max(nd-dp, 0) digits after the point
FmtF(mant, dp) ==
    LET nd   == Len(mant)
        prec == IF nd - dp > 0 THEN nd - dp ELSE 0
        digit(i) == IF i >= 0 /\ i < nd THEN mant[i + 1] ELSE "0"
    IN (IF dp > 0 THEN [i \in 1..dp |-> digit(i - 1)] ELSE <<"0">>)
       \o (IF prec > 0 THEN <<".">> \o [i \in 1..prec |-> digit(dp + i - 1)] ELSE <<>>)

\* fmt.Sprintf("%g", v) of a float64
SprintfG(v) ==
    LET exp == v.dp - 1 IN
    (IF v.neg THEN <<"-">> ELSE <<>>)
    \o (IF Len(v.mant) = 0 THEN <<"0">>
        ELSE IF exp < -4 \/ exp >= ShortestEPrec THEN FmtE(v.mant, exp)
        ELSE FmtF(v.mant, v.dp))

\* fmt.Sprintf("%t", v) of a bool
SprintfT(v) == IF v.b THEN <<"t", "r", "u", "e">> ELSE <<"f", "a", "l", "s", "e">>

\* fmt.Sprintf("%v", v) of the values json leaves in an interface{}: nil,
\* []interface{} and map[string]interface{} (the keys of a nested map are
\* printed in the order read; fmt sorts them, which is the same order for
\* the nested maps of at most one key that the model's tokens carry)
RECURSIVE SprintfV(_), JoinV(_, _)
SprintfV(v) ==
    IF v.t = "string" THEN v.s
    ELSE IF v.t = "number" THEN SprintfG(v)
    ELSE IF v.t = "bool" THEN SprintfT(v)
    ELSE IF v.t = "null" THEN <<"<", "n", "i", "l", ">">>
    ELSE IF v.t = "array" THEN <<"[">> \o JoinV(v.a, FALSE) \o <<"]">>
    ELSE <<"m", "a", "p", "[">> \o JoinV(v.o, TRUE) \o <<"]">>

JoinV(items, keyed) ==
    IF Len(items) = 0 THEN <<>>
    ELSE (IF keyed THEN items[1].k \o <<":">> \o SprintfV(items[1].v)
          ELSE SprintfV(items[1]))
         \o (IF Len(items) > 1 THEN <<" ">> \o JoinV(Tail(items), keyed) ELSE <<>>)

(***************************************************************************)
(* getJWTClaimValue: the claim of an unverified token, as a string.        *)
(***************************************************************************)
ErrNil == "nil"

ClaimResult(value, err) == [value |-> value, err |-> err]

\* the switch over the claim's type, lines 487-499
claimString(value) ==
    IF value.t = "string" THEN ClaimResult(value.s, ErrNil)
    ELSE IF value.t = "number" THEN ClaimResult(SprintfG(value), ErrNil)
    ELSE IF value.t = "bool" THEN ClaimResult(SprintfT(value), ErrNil)
    ELSE ClaimResult(SprintfV(value), ErrNil)

\* an extractor that reads the second segment of any token of two or more
getJWTClaimValue_anySegments(tokenString, claimName) ==
    LET lookup(parsed) ==
            IF parsed.err THEN ClaimResult(<<>>, "error parsing JWT claims")
            ELSE IF MapHas(parsed.claims, claimName)
                 THEN claimString(MapGet(parsed.claims, claimName))
            ELSE ClaimResult(<<>>, "claim not found in JWT token")
        decode(payload) ==
            IF payload.err THEN ClaimResult(<<>>, "error decoding JWT payload")
            ELSE lookup(JSONUnmarshalMap(payload.bytes))
        split(parts) ==
            IF Len(parts) < 2 THEN ClaimResult(<<>>, "invalid JWT token format")
            ELSE decode(Base64RawURLDecode(parts[2]))
    IN split(Split(tokenString, "."))

\* an extractor that takes an absent claim as the empty value, as a lookup
\* in the map without the ok does
getJWTClaimValue_absentIsEmpty(tokenString, claimName) ==
    LET lookup(parsed) ==
            IF parsed.err THEN ClaimResult(<<>>, "error parsing JWT claims")
            ELSE IF MapHas(parsed.claims, claimName)
                 THEN claimString(MapGet(parsed.claims, claimName))
            ELSE ClaimResult(<<>>, ErrNil)
        decode(payload) ==
            IF payload.err THEN ClaimResult(<<>>, "error decoding JWT payload")
            ELSE lookup(JSONUnmarshalMap(payload.bytes))
        split(parts) ==
            IF Len(parts) # 3 THEN ClaimResult(<<>>, "invalid JWT token format")
            ELSE decode(Base64RawURLDecode(parts[2]))
    IN split(Split(tokenString, "."))

getJWTClaimValue(tokenString, claimName) ==
    LET lookup(parsed) ==
            IF parsed.err THEN ClaimResult(<<>>, "error parsing JWT claims")
            ELSE IF MapHas(parsed.claims, claimName)
                 THEN claimString(MapGet(parsed.claims, claimName))
            ELSE ClaimResult(<<>>, "claim not found in JWT token")
        decode(payload) ==
            IF payload.err THEN ClaimResult(<<>>, "error decoding JWT payload")
            ELSE lookup(JSONUnmarshalMap(payload.bytes))
        split(parts) ==
            IF Len(parts) # 3 THEN ClaimResult(<<>>, "invalid JWT token format")
            ELSE decode(Base64RawURLDecode(parts[2]))
    IN split(Split(tokenString, "."))

(***************************************************************************)
(* The strings of the configurations and requests the model explores.      *)
(***************************************************************************)
Empty == <<>>

str_true == <<"t", "r", "u", "e">>

str_XMaintenanceBypass == <<"X", "-", "M", "a", "i", "n", "t", "e", "n", "a", "n", "c", "e", "-", "B", "y", "p", "a", "s", "s">>

str_xmaintenancebypass == <<"x", "-", "m", "a", "i", "n", "t", "e", "n", "a", "n", "c", "e", "-", "b", "y", "p", "a", "s", "s">>

str_Authorization == <<"A", "u", "t", "h", "o", "r", "i", "z", "a", "t", "i", "o", "n">>

str_role == <<"r", "o", "l", "e">>

str_admin == <<"a", "d", "m", "i", "n">>

str_XKubernetesAnnotations == <<"X", "-", "K", "u", "b", "e", "r", "n", "e", "t", "e", "s", "-", "A", "n", "n", "o", "t", "a", "t", "i", "o", "n", "s">>

str_maintenance == <<"m", "a", "i", "n", "t", "e", "n", "a", "n", "c", "e">>

str_favicon == <<"/", "f", "a", "v", "i", "c", "o", "n", ".", "i", "c", "o">>

str_bearer == <<"b", "e", "a", "r", "e", "r", " ">>

str_XMaintenanceMode == <<"X", "-", "M", "a", "i", "n", "t", "e", "n", "a", "n", "c", "e", "-", "M", "o", "d", "e">>

str_CacheControl == <<"C", "a", "c", "h", "e", "-", "C", "o", "n", "t", "r", "o", "l">>

str_noCache == <<"n", "o", "-", "c", "a", "c", "h", "e", ",", " ", "n", "o", "-", "s", "t", "o", "r", "e", ",", " ", "m", "u", "s", "t", "-", "r", "e", "v", "a", "l", "i", "d", "a", "t", "e">>

str_RetryAfter == <<"R", "e", "t", "r", "y", "-", "A", "f", "t", "e", "r">>

str_3600 == <<"3", "6", "0", "0">>

str_ContentType == <<"C", "o", "n", "t", "e", "n", "t", "-", "T", "y", "p", "e">>

str_textHtml == <<"t", "e", "x", "t", "/", "h", "t", "m", "l", ";", " ", "c", "h", "a", "r", "s", "e", "t", "=", "u", "t", "f", "-", "8">>

str_textPlain == <<"t", "e", "x", "t", "/", "p", "l", "a", "i", "n", ";", " ", "c", "h", "a", "r", "s", "e", "t", "=", "u", "t", "f", "-", "8">>

str_applicationJson == <<"a", "p", "p", "l", "i", "c", "a", "t", "i", "o", "n", "/", "j", "s", "o", "n">>

str_XContentTypeOptions == <<"X", "-", "C", "o", "n", "t", "e", "n", "t", "-", "T", "y", "p", "e", "-", "O", "p", "t", "i", "o", "n", "s">>

str_nosniff == <<"n", "o", "s", "n", "i", "f", "f">>

str_false == <<"f", "a", "l", "s", "e">>

str_5 == <<"5">>

\* request paths
path_root == <<"/">>

path_api == <<"/", "a", "p", "i">>

path_apiStatus == <<"/", "a", "p", "i", "/", "s", "t", "a", "t", "u", "s">>

path_apiFavicon == <<"/", "a", "p", "i", "/", "f", "a", "v", "i", "c", "o", "n", ".", "i", "c", "o">>

path_myfavicon == <<"/", "m", "y", "f", "a", "v", "i", "c", "o", "n", ".", "i", "c", "o">>

path_apiSlash == <<"/", "a", "p", "i", "/">>

path_health == <<"/", "h", "e", "a", "l", "t", "h">>

\* maintenance service addresses
url_maintenance == <<"h", "t", "t", "p", ":", "/", "/", "m", "a", "i", "n", "t", "e", "n", "a", "n", "c", "e", "-", "s", "e", "r", "v", "i", "c", "e">>

url_noScheme == <<"m", "a", "i", "n", "t", "e", "n", "a", "n", "c", "e", "-", "s", "e", "r", "v", "i", "c", "e">>

url_noHost == <<"h", "t", "t", "p", ":", "/", "/", "/", "p", "a", "g", "e">>

url_invalid == <<":", "/", "/", "i", "n", "v", "a", "l", "i", "d">>

host_example == <<"e", "x", "a", "m", "p", "l", "e", ".", "c", "o", "m">>

\* tokens: header.payload.signature, the payload the unpadded URL-safe
\* base64 of the JSON text named in the comment
\* {"role":"admin"}
jwt_admin == <<"e", "3", "0", ".", "e", "y", "J", "y", "b", "2", "x", "l", "I", "j", "o", "i", "Y", "W", "R", "t", "a", "W", "4", "i", "f", "Q", ".", "c", "2", "l", "n">>

\* {"role":"user"}
jwt_user == <<"e", "3", "0", ".", "e", "y", "J", "y", "b", "2", "x", "l", "I", "j", "o", "i", "d", "X", "N", "l", "c", "i", "J", "9", ".", "c", "2", "l", "n">>

\* {"sub":"x"}: no role claim
jwt_noClaim == <<"e", "3", "0", ".", "e", "y", "J", "z", "d", "W", "I", "i", "O", "i", "J", "4", "I", "n", "0", ".", "c", "2", "l", "n">>

\* two segments only
jwt_twoSegments == <<"e", "3", "0", ".", "e", "y", "J", "y", "b", "2", "x", "l", "I", "j", "o", "i", "Y", "W", "R", "t", "a", "W", "4", "i", "f", "Q">>

\* four segments
jwt_fourSegments == <<"e", "3", "0", ".", "e", "y", "J", "y", "b", "2", "x", "l", "I", "j", "o", "i", "Y", "W", "R", "t", "a", "W", "4", "i", "f", "Q", ".", "c", "2", "l", "n", ".", "x">>

\* a payload with a character outside the base64 alphabet
jwt_badBase64 == <<"e", "3", "0", ".", "e", "y", "J", "y", "b", "2", "x", "l", "I", "j", "o", "i", "Y", "W", "R", "t", "a", "W", "4", "i", "f", "=", ".", "c", "2", "l", "n">>

\* ["admin"]: a payload that is JSON but no object
jwt_notObject == <<"e", "3", "0", ".", "W", "y", "J", "h", "Z", "G", "1", "p", "b", "i", "J", "d", ".", "c", "2", "l", "n">>

\* {"role":""}: the claim present and empty
jwt_emptyValue == <<"e", "3", "0", ".", "e", "y", "J", "y", "b", "2", "x", "l", "I", "j", "o", "i", "I", "n", "0", ".", "c", "2", "l", "n">>

\* {"":"admin"}: a claim whose name is empty
jwt_emptyName == <<"e", "3", "0", ".", "e", "y", "I", "i", "O", "i", "J", "h", "Z", "G", "1", "p", "b", "i", "J", "9", ".", "c", "2", "l", "n">>

\* {"role":true}
jwt_boolTrue == <<"e", "3", "0", ".", "e", "y", "J", "y", "b", "2", "x", "l", "I", "j", "p", "0", "c", "n", "V", "l", "f", "Q", ".", "c", "2", "l", "n">>

\* annotation header values
ann_exact == <<"m", "a", "i", "n", "t", "e", "n", "a", "n", "c", "e", "=", "t", "r", "u", "e">>

ann_withOther == <<"m", "a", "i", "n", "t", "e", "n", "a", "n", "c", "e", "=", "t", "r", "u", "e", ",", "o", "t", "h", "e", "r", "=", "v", "a", "l", "u", "e">>

ann_wrongValue == <<"m", "a", "i", "n", "t", "e", "n", "a", "n", "c", "e", "=", "f", "a", "l", "s", "e", ",", "o", "t", "h", "e", "r", "=", "v", "a", "l", "u", "e">>

ann_otherOnly == <<"o", "t", "h", "e", "r", "=", "v", "a", "l", "u", "e">>

ann_inside == <<"n", "o", "t", ".", "m", "a", "i", "n", "t", "e", "n", "a", "n", "c", "e", "=", "t", "r", "u", "e", "-", "l", "a", "t", "e", "r">>

(***************************************************************************)
(* Config and CreateConfig.  File paths, inline content, file contents and *)
(* response bodies are TLA+ strings: the code only compares them with "".   *)
(***************************************************************************)
DefaultStatusCode == 503

DefaultTimeout == 10

LogLevelError == 1

CreateConfig ==
    [ MaintenanceService       |-> Empty,
      MaintenanceFilePath      |-> "",
      MaintenanceContent       |-> "",
      BypassHeader             |-> str_XMaintenanceBypass,
      BypassHeaderValue        |-> str_true,
      BypassJWTTokenHeader     |-> str_Authorization,
      BypassJWTTokenClaim      |-> Empty,
      BypassJWTTokenClaimValue |-> Empty,
      Enabled                  |-> TRUE,
      StatusCode               |-> DefaultStatusCode,
      BypassPaths              |-> <<>>,
      BypassFavicon            |-> TRUE,
      LogLevel                 |-> LogLevelError,
      MaintenanceTimeout       |-> DefaultTimeout,
      ContentType              |-> str_textHtml,
      EnabledAnnotation        |-> Empty,
      EnabledAnnotationValue   |-> str_true,
      EnabledAnnotationHeader  |-> Empty ]

(***************************************************************************)
(* The configurations explored: CreateConfig with inline content, and      *)
(* every configuration that differs from it in some of nine settings.      *)
(* Option 1 of each setting is the default.                                *)
(***************************************************************************)
InlineContent == "<html>inline maintenance page</html>"

FilePath == "/etc/maintenance.html"

EnabledOpts == <<TRUE, FALSE>>

FaviconOpts == <<TRUE, FALSE>>

PathsOpts == << <<>>, <<path_api>>, <<path_health, path_apiSlash>>, <<path_apiSlash, path_api>> >>

HeaderOpts ==
    << [h |-> str_XMaintenanceBypass, v |-> str_true],
       [h |-> Empty,                  v |-> Empty],
       [h |-> str_xmaintenancebypass, v |-> str_true],
       [h |-> str_XMaintenanceBypass, v |-> Empty] >>

JWTOpts ==
    << [h |-> str_Authorization, c |-> Empty,    v |-> Empty],
       [h |-> str_Authorization, c |-> str_role, v |-> str_admin],
       [h |-> str_Authorization, c |-> Empty,    v |-> str_admin],
       [h |-> str_Authorization, c |-> str_role, v |-> Empty],
       [h |-> Empty,             c |-> str_role, v |-> str_admin],
       [h |-> str_Authorization, c |-> str_role, v |-> str_true] >>

AnnotationOpts ==
    << [a |-> Empty,           v |-> str_true, h |-> Empty],
       [a |-> str_maintenance, v |-> str_true, h |-> str_XKubernetesAnnotations],
       [a |-> str_maintenance, v |-> str_true, h |-> Empty],
       [a |-> Empty,           v |-> str_true, h |-> str_XKubernetesAnnotations] >>

SourceOpts ==
    << [content |-> InlineContent, file |-> "",       service |-> Empty],
       [content |-> "",            file |-> FilePath, service |-> Empty],
       [content |-> "",            file |-> "",       service |-> url_maintenance],
       [content |-> "",            file |-> "",       service |-> url_noScheme],
       [content |-> "",            file |-> "",       service |-> Empty],
       [content |-> InlineContent, file |-> FilePath, service |-> Empty],
       [content |-> "",            file |-> FilePath, service |-> url_maintenance],
       [content |-> InlineContent, file |-> "",       service |-> url_maintenance],
       [content |-> "",            file |-> "",       service |-> url_noHost],
       [content |-> "",            file |-> "",       service |-> url_invalid] >>

StatusOpts == <<DefaultStatusCode, 0, 429>>

ContentTypeOpts == <<str_textHtml, Empty, str_applicationJson>>

ConfigChoices ==
    (1..Len(EnabledOpts)) \X (1..Len(FaviconOpts)) \X (1..Len(PathsOpts))
    \X (1..Len(HeaderOpts)) \X (1..Len(JWTOpts)) \X (1..Len(AnnotationOpts))
    \X (1..Len(SourceOpts)) \X (1..Len(StatusOpts)) \X (1..Len(ContentTypeOpts))

\* the number of settings a choice takes away from their default
Changes(choice) == Cardinality({ d \in 1..Len(choice) : choice[d] # 1 })

ConfigOf(ch) ==
    [ CreateConfig EXCEPT
        !.Enabled                  = EnabledOpts[ch[1]],
        !.BypassFavicon            = FaviconOpts[ch[2]],
        !.BypassPaths              = PathsOpts[ch[3]],
        !.BypassHeader             = HeaderOpts[ch[4]].h,
        !.BypassHeaderValue        = HeaderOpts[ch[4]].v,
        !.BypassJWTTokenHeader     = JWTOpts[ch[5]].h,
        !.BypassJWTTokenClaim      = JWTOpts[ch[5]].c,
        !.BypassJWTTokenClaimValue = JWTOpts[ch[5]].v,
        !.EnabledAnnotation        = AnnotationOpts[ch[6]].a,
        !.EnabledAnnotationValue   = AnnotationOpts[ch[6]].v,
        !.EnabledAnnotationHeader  = AnnotationOpts[ch[6]].h,
        !.MaintenanceContent       = SourceOpts[ch[7]].content,
        !.MaintenanceFilePath      = SourceOpts[ch[7]].file,
        !.MaintenanceService       = SourceOpts[ch[7]].service,
        !.StatusCode               = StatusOpts[ch[8]],
        !.ContentType              = ContentTypeOpts[ch[9]] ]

(***************************************************************************)
(* The requests explored: GET / on example.com without headers, and every  *)
(* request that differs from it in its path or in some of three headers.   *)
(* A header option is the list of values sent under the header name; the   *)
(* empty list is the header left out.                                      *)
(***************************************************************************)
RequestPathOpts ==
    <<path_root, str_favicon, path_api, path_apiStatus, path_apiFavicon, path_myfavicon>>

BypassHeaderOpts ==
    << <<>>, <<str_true>>, <<<<"T", "R", "U", "E">>>>, <<Empty>>, <<str_false, str_true>> >>

JWTHeaderOpts ==
    << <<>>,
       <<jwt_admin>>,
       <<<<"B", "e", "a", "r", "e", "r", " ">> \o jwt_admin>>,
       <<<<"b", "E", "A", "R", "E", "R", " ">> \o jwt_admin>>,
       <<jwt_user>>,
       <<jwt_noClaim>>,
       <<jwt_twoSegments>>,
       <<jwt_fourSegments>>,
       <<jwt_badBase64>>,
       <<jwt_notObject>>,
       <<jwt_emptyValue>>,
       <<jwt_emptyName>>,
       <<jwt_boolTrue>>,
       <<<<"B", "e", "a", "r", "e", "r", " ">>>>,
       <<<<"B", "E", "A", "R", "E", "R", " ">> \o str_bearer \o jwt_admin>> >>

AnnotationHeaderOpts ==
    << <<>>, <<ann_exact>>, <<ann_withOther>>, <<ann_wrongValue>>, <<ann_otherOnly>>,
       <<ann_inside>> >>

RequestChoices ==
    (1..Len(RequestPathOpts)) \X (1..Len(BypassHeaderOpts))
    \X (1..Len(JWTHeaderOpts)) \X (1..Len(AnnotationHeaderOpts))

\* req.Header.Add for each value of one header, sent under any spelling of
\* its name
RECURSIVE HeaderAddAll(_, _, _)
HeaderAddAll(h, key, values) ==
    IF Len(values) = 0 THEN h
    ELSE HeaderAddAll(HeaderAdd(h, key, values[1]), key, Tail(values))

RequestOf(ch) ==
    [ Method |-> "GET",
      URL    |-> [Scheme |-> Empty, Host |-> Empty, Path |-> RequestPathOpts[ch[1]]],
      Host   |-> host_example,
      Header |-> HeaderAddAll(
                    HeaderAddAll(
                        HeaderAddAll(EmptyHeader, str_xmaintenancebypass,
                                     BypassHeaderOpts[ch[2]]),
                        str_Authorization, JWTHeaderOpts[ch[3]]),
                    str_XKubernetesAnnotations, AnnotationHeaderOpts[ch[4]]) ]

(***************************************************************************)
(* net/url: Parse, for addresses without query, fragment and user info.    *)
(***************************************************************************)
\* getScheme: the letters, digits, "+", "-" and "." before the first colon;
\* no scheme when another character or a leading non-letter comes first; an
\* error when the colon is the first character
RECURSIVE GetScheme(_, _)
GetScheme(rawURL, i) ==
    LET c == At(rawURL, i) IN
    IF c = "EOF" THEN [err |-> FALSE, scheme |-> Empty, rest |-> rawURL]
    ELSE IF IsLower(c) \/ IsUpper(c) THEN GetScheme(rawURL, i + 1)
    ELSE IF IsDigit(c) \/ c \in {"+", "-", "."} THEN
        (IF i = 1 THEN [err |-> FALSE, scheme |-> Empty, rest |-> rawURL]
         ELSE GetScheme(rawURL, i + 1))
    ELSE IF c = ":" THEN
        (IF i = 1 THEN [err |-> TRUE, scheme |-> Empty, rest |-> Empty]
         ELSE [err |-> FALSE, scheme |-> SubSeq(rawURL, 1, i - 1),
               rest |-> SliceFrom(rawURL, i)])
    ELSE [err |-> FALSE, scheme |-> Empty, rest |-> rawURL]

\* the part of s before the first "/", all of s if there is none
UpToSlash(s) == Split(s, "/")[1]

URLParse(rawURL) ==
    LET sch       == GetScheme(rawURL, 1)
        scheme    == ToLower(sch.scheme)
        rest      == sch.rest
        authority == /\ (Len(scheme) > 0 \/ ~HasPrefix(rest, <<"/", "/", "/">>))
                     /\ HasPrefix(rest, <<"/", "/">>)
        colonSeg  == /\ Len(scheme) = 0
                     /\ ~HasPrefix(rest, <<"/">>)
                     /\ Contains(UpToSlash(rest), <<":">>)
    IN IF sch.err \/ colonSeg THEN [err |-> TRUE, Scheme |-> Empty, Host |-> Empty]
       ELSE [err |-> FALSE, Scheme |-> scheme,
             Host |-> IF authority THEN UpToSlash(SliceFrom(rest, 2)) ELSE Empty]

(***************************************************************************)
(* The maintenance file on disk, and loadMaintenanceFile.                  *)
(***************************************************************************)
\* m.maintenanceFileContent before the first load
NilBytes == "nil"

\* the zero time.Time, before every modification time of a file
ZeroTime == 0

\* the result of a load: the instance with its cache, the error, and
\* whether ioutil.ReadFile was called
LoadResult(m, err, read) == [m |-> m, err |-> err, read |-> read]

\* a load that takes a zero-length file
loadMaintenanceFile_acceptEmpty(m, file) ==
    IF ~file.exists THEN LoadResult(m, "error accessing maintenance file", FALSE)
    ELSE IF m.maintenanceFileContent # NilBytes
            /\ ~(file.modTime > m.maintenanceFileLastMod)
         THEN LoadResult(m, ErrNil, FALSE)
    ELSE IF ~file.readable THEN LoadResult(m, "error reading maintenance file", TRUE)
    ELSE LoadResult([m EXCEPT !.maintenanceFileContent = file.content,
                              !.maintenanceFileLastMod = file.modTime],
                    ErrNil, TRUE)

\* a load that reads the file whenever it is called
loadMaintenanceFile_alwaysReload(m, file) ==
    IF ~file.exists THEN LoadResult(m, "error accessing maintenance file", FALSE)
    ELSE IF ~file.readable THEN LoadResult(m, "error reading maintenance file", TRUE)
    ELSE IF file.content = "" THEN LoadResult(m, "maintenance file is empty", TRUE)
    ELSE LoadResult([m EXCEPT !.maintenanceFileContent = file.content,
                              !.maintenanceFileLastMod = file.modTime],
                    ErrNil, TRUE)

\* a load that never reads again once the cache holds content
loadMaintenanceFile_loadOnce(m, file) ==
    IF ~file.exists THEN LoadResult(m, "error accessing maintenance file", FALSE)
    ELSE IF m.maintenanceFileContent # NilBytes THEN LoadResult(m, ErrNil, FALSE)
    ELSE IF ~file.readable THEN LoadResult(m, "error reading maintenance file", TRUE)
    ELSE IF file.content = "" THEN LoadResult(m, "maintenance file is empty", TRUE)
    ELSE LoadResult([m EXCEPT !.maintenanceFileContent = file.content,
                              !.maintenanceFileLastMod = file.modTime],
                    ErrNil, TRUE)

\* fileMutex is held from the first line to the return
loadMaintenanceFile(m, file) ==
    IF ~file.exists THEN LoadResult(m, "error accessing maintenance file", FALSE)
    ELSE IF m.maintenanceFileContent # NilBytes
            /\ ~(file.modTime > m.maintenanceFileLastMod)
         THEN LoadResult(m, ErrNil, FALSE)
    ELSE IF ~file.readable THEN LoadResult(m, "error reading maintenance file", TRUE)
    ELSE IF file.content = "" THEN LoadResult(m, "maintenance file is empty", TRUE)
    ELSE LoadResult([m EXCEPT !.maintenanceFileContent = file.content,
                              !.maintenanceFileLastMod = file.modTime],
                    ErrNil, TRUE)

(***************************************************************************)
(* New.                                                                    *)
(***************************************************************************)
NilURL == [Scheme |-> Empty, Host |-> Empty, nil |-> TRUE]

NilInstance == [nil |-> TRUE]

\* the MaintenanceBypass literal of New
NewInstance(config) ==
    [ nil                      |-> FALSE,
      maintenanceService       |-> NilURL,
      maintenanceFilePath      |-> config.MaintenanceFilePath,
      maintenanceFileContent   |-> NilBytes,
      maintenanceContent       |-> config.MaintenanceContent,
      maintenanceFileLastMod   |-> ZeroTime,
      bypassHeader             |-> config.BypassHeader,
      bypassHeaderValue        |-> config.BypassHeaderValue,
      bypassJWTTokenHeader     |-> config.BypassJWTTokenHeader,
      bypassJWTTokenClaim      |-> config.BypassJWTTokenClaim,
      bypassJWTTokenClaimValue |-> config.BypassJWTTokenClaimValue,
      enabled                  |-> config.Enabled,
      statusCode               |-> IF config.StatusCode = 0 THEN DefaultStatusCode
                                   ELSE config.StatusCode,
      bypassPaths              |-> config.BypassPaths,
      bypassFavicon            |-> config.BypassFavicon,
      logLevel                 |-> config.LogLevel,
      timeout                  |-> 0,
      contentType              |-> IF config.ContentType = Empty THEN str_textHtml
                                   ELSE config.ContentType,
      enabledAnnotation        |-> config.EnabledAnnotation,
      enabledAnnotationValue   |-> config.EnabledAnnotationValue,
      enabledAnnotationHeader  |-> config.EnabledAnnotationHeader ]

\* what New returns, and whether it called ioutil.ReadFile
NewResult(m, err) == [m |-> m, err |-> err, read |-> FALSE]

New(config, file) ==
    LET m0     == NewInstance(config)
        loaded == loadMaintenanceFile(m0, file)
        u      == URLParse(config.MaintenanceService)
    IN IF config.MaintenanceFilePath # "" THEN
            (IF loaded.err # ErrNil
             THEN [NewResult(NilInstance, "failed to load maintenance file")
                   EXCEPT !.read = loaded.read]
             ELSE [NewResult(loaded.m, ErrNil) EXCEPT !.read = loaded.read])
       ELSE IF config.MaintenanceContent # "" THEN NewResult(m0, ErrNil)
       ELSE IF config.MaintenanceService # Empty THEN
            (IF u.err THEN NewResult(NilInstance, "invalid maintenance service URL")
             ELSE IF u.Scheme = Empty \/ u.Host = Empty
                  THEN NewResult(NilInstance,
                                 "maintenance service URL must include scheme and host")
             ELSE NewResult(
                    [m0 EXCEPT !.maintenanceService =
                                    [Scheme |-> u.Scheme, Host |-> u.Host, nil |-> FALSE],
                               !.timeout = IF config.MaintenanceTimeout = 0
                                           THEN DefaultTimeout
                                           ELSE config.MaintenanceTimeout],
                    ErrNil))
       ELSE NewResult(NilInstance,
              "either maintenanceService, maintenanceFilePath, or maintenanceContent must be specified")

(***************************************************************************)
(* http.ResponseWriter: the header map, the status line once written with  *)
(* the headers as they were at that moment, the body chunks, and the calls *)
(* made on the writer with their caller.                                   *)
(***************************************************************************)
Middleware == "middleware"

NextHandler == "next"

ReverseProxy == "reverse proxy"

StatusOK == 200

NewRecorder ==
    [ header      |-> EmptyHeader,
      wroteHeader |-> FALSE,
      code        |-> 0,
      sent        |-> EmptyHeader,
      body        |-> <<>>,
      calls       |-> <<>> ]

\* rw.Header().Set(key, value)
RwHeaderSet(rw, who, key, value) ==
    [rw EXCEPT !.header = HeaderSet(rw.header, key, value),
               !.calls = Append(rw.calls, <<who, "Header.Set">>)]

\* rw.Header().Add(key, value)
RwHeaderAdd(rw, who, key, value) ==
    [rw EXCEPT !.header = HeaderAdd(rw.header, key, value),
               !.calls = Append(rw.calls, <<who, "Header.Add">>)]

\* rw.WriteHeader(code): the first call sends the status line and the
\* headers; a later call changes nothing of the response
RwWriteHeader(rw, who, code) ==
    IF rw.wroteHeader
    THEN [rw EXCEPT !.calls = Append(rw.calls, <<who, "WriteHeader">>)]
    ELSE [rw EXCEPT !.wroteHeader = TRUE,
                    !.code = code,
                    !.sent = rw.header,
                    !.calls = Append(rw.calls, <<who, "WriteHeader">>)]

\* rw.Write(b): sends the status line with 200 first if none was written
RwWrite(rw, who, b) ==
    LET rw1 == IF rw.wroteHeader THEN rw
               ELSE [rw EXCEPT !.wroteHeader = TRUE, !.code = StatusOK, !.sent = rw.header]
    IN [rw1 EXCEPT !.body = Append(rw.body, b),
                   !.calls = Append(rw.calls, <<who, "Write">>)]

\* rw.Write(b) when the connection to the client is lost: nothing reaches
\* the client and Write returns an error
RwWriteFailed(rw, who, b) ==
    LET rw1 == IF rw.wroteHeader THEN rw
               ELSE [rw EXCEPT !.wroteHeader = TRUE, !.code = StatusOK, !.sent = rw.header]
    IN [rw1 EXCEPT !.calls = Append(rw.calls, <<who, "Write">>)]

\* http.Error(rw, error, code)
HttpError(rw, who, error, code) ==
    RwWrite(
        RwWriteHeader(
            RwHeaderSet(
                RwHeaderSet(rw, who, str_ContentType, str_textPlain),
                who, str_XContentTypeOptions, str_nosniff),
            who, code),
        who, error)

(***************************************************************************)
(* maintenanceResponseWriter                                               *)
(***************************************************************************)
\* a WriteHeader that hands the code it is given to the wrapped writer
WriteHeader_passCode(w, statusCode) ==
    IF ~w.headerSet
    THEN [w EXCEPT !.ResponseWriter = RwWriteHeader(w.ResponseWriter, Middleware, statusCode),
                   !.headerSet = TRUE]
    ELSE w

\* maintenanceResponseWriter.WriteHeader
WriteHeader(w, statusCode) ==
    IF ~w.headerSet
    THEN [w EXCEPT !.ResponseWriter = RwWriteHeader(w.ResponseWriter, Middleware, w.statusCode),
                   !.headerSet = TRUE]
    ELSE w

\* a Write that leaves the status line to the wrapped writer
Write_noImplicitHeader(w, b) ==
    [w EXCEPT !.ResponseWriter = RwWrite(w.ResponseWriter, Middleware, b)]

\* maintenanceResponseWriter.Write
Write(w, b) ==
    LET w1 == IF ~w.headerSet THEN WriteHeader(w, w.statusCode) ELSE w
    IN [w1 EXCEPT !.ResponseWriter = RwWrite(w1.ResponseWriter, Middleware, b)]

(***************************************************************************)
(* The downstream handler and the maintenance service.                     *)
(***************************************************************************)
RealServiceContent == "This is the real service content"

\* the handler behind the middleware: 200 and the content of the real service
nextServeHTTP(rw, req) ==
    RwWrite(RwWriteHeader(rw, NextHandler, StatusOK), NextHandler, RealServiceContent)

\* what a round trip to the maintenance service can come to: a transport
\* error (connection refused, timeout), or a response
BackendError == [err |-> TRUE, status |-> 0, header |-> <<>>, body |-> ""]

BackendPage ==
    [ err    |-> FALSE,
      status |-> StatusOK,
      header |-> << <<str_ContentType, str_textPlain>> >>,
      body   |-> "<html><body>Maintenance Page</body></html>" ]

BackendFailing ==
    [ err    |-> FALSE,
      status |-> 500,
      header |-> << <<str_XMaintenanceMode, str_false>>, <<str_RetryAfter, str_5>> >>,
      body   |-> "" ]

BackendOutcomes == {BackendError, BackendPage, BackendFailing}

\* no round trip is made
NoBackend == [err |-> FALSE, status |-> 0, header |-> <<>>, body |-> ""]

(***************************************************************************)
(* isMaintenanceEnabled and the bypass rules of ServeHTTP.                 *)
(***************************************************************************)
\* an enablement in which a configured annotation decides alone
isMaintenanceEnabled_annotationDecides(m, req) ==
    IF m.enabledAnnotation # Empty /\ m.enabledAnnotationHeader # Empty
    THEN Contains(HeaderGet(req.Header, m.enabledAnnotationHeader),
                  m.enabledAnnotation \o <<"=">> \o m.enabledAnnotationValue)
    ELSE m.enabled

\* an enablement that asks for a whole comma-separated entry
isMaintenanceEnabled_exactEntry(m, req) ==
    IF /\ m.enabledAnnotation # Empty
       /\ m.enabledAnnotationHeader # Empty
       /\ \E i \in 1..Len(Split(HeaderGet(req.Header, m.enabledAnnotationHeader), ",")) :
            Split(HeaderGet(req.Header, m.enabledAnnotationHeader), ",")[i]
            = m.enabledAnnotation \o <<"=">> \o m.enabledAnnotationValue
    THEN TRUE
    ELSE m.enabled

isMaintenanceEnabled(m, req) ==
    IF /\ m.enabledAnnotation # Empty
       /\ m.enabledAnnotationHeader # Empty
       /\ Contains(HeaderGet(req.Header, m.enabledAnnotationHeader),
                   m.enabledAnnotation \o <<"=">> \o m.enabledAnnotationValue)
    THEN TRUE
    ELSE m.enabled

\* a favicon rule that does not ask for bypassFavicon
faviconBypass_ignoreFlag(m, req) == HasSuffix(req.URL.Path, str_favicon)

\* the favicon rule
faviconBypass(m, req) ==
    m.bypassFavicon /\ HasSuffix(req.URL.Path, str_favicon)

\* the bypass paths the request path starts with, by their place in the list
matchingPaths(m, req) ==
    { i \in 1..Len(m.bypassPaths) : HasPrefix(req.URL.Path, m.bypassPaths[i]) }

\* a path rule that asks for the whole path, not a prefix of it
pathBypass_exact(m, req) ==
    \E i \in 1..Len(m.bypassPaths) : req.URL.Path = m.bypassPaths[i]

\* the path rule
pathBypass(m, req) == matchingPaths(m, req) # {}

\* the first bypass path of the list that matches: the one the loop returns on
firstMatchingPath(m, req) ==
    m.bypassPaths[CHOOSE i \in matchingPaths(m, req) :
                    \A j \in matchingPaths(m, req) : i <= j]

\* a header rule that compares the values without regard to letter case
headerBypass_foldCase(m, req) ==
    /\ m.bypassHeader # Empty
    /\ ToLower(HeaderGet(req.Header, m.bypassHeader)) = ToLower(m.bypassHeaderValue)

\* the header rule
headerBypass(m, req) ==
    /\ m.bypassHeader # Empty
    /\ HeaderGet(req.Header, m.bypassHeader) = m.bypassHeaderValue

BearerPrefixLen == 7

\* a strip of the prefix as it is usually written and of no other casing
tokenString_exactCase(authHeader) ==
    IF HasPrefix(authHeader, <<"B", "e", "a", "r", "e", "r", " ">>)
    THEN SliceFrom(authHeader, BearerPrefixLen)
    ELSE authHeader

\* the token of the JWT header: the value without a leading "bearer " in
\* any letter case
tokenString(authHeader) ==
    IF HasPrefix(ToLower(authHeader), str_bearer)
    THEN SliceFrom(authHeader, BearerPrefixLen)
    ELSE authHeader

\* a JWT rule that does not ask for an expected value
jwtBypass_noValueGuard(m, req) ==
    LET authHeader == HeaderGet(req.Header, m.bypassJWTTokenHeader)
        claim      == getJWTClaimValue(tokenString(authHeader), m.bypassJWTTokenClaim)
    IN /\ m.bypassJWTTokenHeader # Empty
       /\ m.bypassJWTTokenClaim # Empty
       /\ authHeader # Empty
       /\ claim.err = ErrNil
       /\ claim.value = m.bypassJWTTokenClaimValue

\* the JWT rule
jwtBypass(m, req) ==
    LET authHeader == HeaderGet(req.Header, m.bypassJWTTokenHeader)
        claim      == getJWTClaimValue(tokenString(authHeader), m.bypassJWTTokenClaim)
    IN /\ m.bypassJWTTokenHeader # Empty
       /\ m.bypassJWTTokenClaim # Empty
       /\ m.bypassJWTTokenClaimValue # Empty
       /\ authHeader # Empty
       /\ claim.err = ErrNil
       /\ claim.value = m.bypassJWTTokenClaimValue

(***************************************************************************)
(* The three content strategies.                                           *)
(***************************************************************************)
UnavailableBody == "Service temporarily unavailable"

\* the body of http.Error: the message and a line end
FileErrorBody == "Service Temporarily Unavailable\n"

\* what a call of ServeHTTP leaves behind: the response writer, the calls of
\* the downstream handler, the instance (its file cache), the request
\* object, the request sent to the maintenance service, the branch taken,
\* whether ioutil.ReadFile was called, the lines logged at error level, and
\* whether getJWTClaimValue was called
Served(rw, nextCalls, m, req, proxyReq, reason) ==
    [ rw |-> rw, nextCalls |-> nextCalls, m |-> m, req |-> req,
      proxyReq |-> proxyReq, reason |-> reason, read |-> FALSE, log |-> <<>>,
      parsed |-> FALSE ]

\* m.log(level, line): the line is printed when the level is within m.logLevel
log(m, level, line) == IF level <= m.logLevel THEN <<line>> ELSE <<>>

NoRequest == [nil |-> TRUE]

Reason(rule, path) == [rule |-> rule, path |-> path]

\* a pass-through that marks the response before the handler runs
passThrough_marked(m, rw, req, reason) ==
    Served(nextServeHTTP(RwHeaderSet(rw, Middleware, str_XMaintenanceMode, str_false), req),
           << [writer |-> "rw", req |-> req] >>,
           m, req, NoRequest, reason)

\* a pass-through that returns without a call of the handler
passThrough_noCall(m, rw, req, reason) ==
    Served(rw, <<>>, m, req, NoRequest, reason)

\* m.next.ServeHTTP(rw, req): return
passThrough(m, rw, req, reason) ==
    Served(nextServeHTTP(rw, req),
           << [writer |-> "rw", req |-> req] >>,
           m, req, NoRequest, reason)

\* writeErr: the error rw.Write returns, nil or not
serveMaintenanceContent(m, rw, req, writeErr) ==
    LET rw1 == RwWriteHeader(rw, Middleware, m.statusCode)
    IN IF writeErr
       THEN [Served(RwWriteFailed(rw1, Middleware, m.maintenanceContent),
                    <<>>, m, req, NoRequest, Reason("maintenance", Empty))
             EXCEPT !.log = log(m, LogLevelError, "Error writing maintenance content")]
       ELSE Served(RwWrite(rw1, Middleware, m.maintenanceContent),
                   <<>>, m, req, NoRequest, Reason("maintenance", Empty))

\* a file strategy that answers a failed reload with 500
serveMaintenanceFile_500(m, rw, req, file) ==
    LET loaded == loadMaintenanceFile(m, file)
    IN IF loaded.err # ErrNil
       THEN Served(HttpError(rw, Middleware, FileErrorBody, 500),
                   <<>>, loaded.m, req, NoRequest, Reason("maintenance", Empty))
       ELSE Served(RwWrite(RwWriteHeader(rw, Middleware, m.statusCode),
                           Middleware, loaded.m.maintenanceFileContent),
                   <<>>, loaded.m, req, NoRequest, Reason("maintenance", Empty))

\* a file strategy that answers a failed reload with the bytes it has
serveMaintenanceFile_serveStale(m, rw, req, file) ==
    LET loaded == loadMaintenanceFile(m, file)
    IN [Served(RwWrite(RwWriteHeader(rw, Middleware, m.statusCode),
                       Middleware, loaded.m.maintenanceFileContent),
               <<>>, loaded.m, req, NoRequest, Reason("maintenance", Empty))
        EXCEPT !.read = loaded.read]

serveMaintenanceFile(m, rw, req, file) ==
    LET loaded  == loadMaintenanceFile(m, file)
        content == loaded.m.maintenanceFileContent
    IN IF loaded.err # ErrNil
       THEN [Served(HttpError(rw, Middleware, FileErrorBody, m.statusCode),
                    <<>>, loaded.m, req, NoRequest, Reason("maintenance", Empty))
             EXCEPT !.read = loaded.read,
                    !.log = log(m, LogLevelError, "Failed to load maintenance file")]
       ELSE [Served(RwWrite(RwWriteHeader(rw, Middleware, m.statusCode),
                            Middleware, content),
                    <<>>, loaded.m, req, NoRequest, Reason("maintenance", Empty))
             EXCEPT !.read = loaded.read]

\* httputil.ReverseProxy copies the headers of the response into the header
\* map of the writer it was given
RECURSIVE copyHeader(_, _)
copyHeader(rw, pairs) ==
    IF Len(pairs) = 0 THEN rw
    ELSE copyHeader(RwHeaderAdd(rw, ReverseProxy, pairs[1][1], pairs[1][2]), Tail(pairs))

\* proxy.ServeHTTP(maintenanceWriter, proxyReq): on a transport error the
\* ErrorHandler of proxyToMaintenanceService; else the headers, the status
\* and the body of the response, written to maintenanceWriter
proxyServeHTTP(m, w, backend) ==
    IF backend.err
    THEN Write(WriteHeader(w, m.statusCode), UnavailableBody)
    ELSE LET w1 == [w EXCEPT !.ResponseWriter = copyHeader(w.ResponseWriter, backend.header)]
             w2 == WriteHeader(w1, backend.status)
         IN IF backend.body = "" THEN w2 ELSE Write(w2, backend.body)

\* a service strategy that rewrites the request it was given instead of a
\* clone of it
proxyToMaintenanceService_noClone(m, rw, req, backend) ==
    LET maintenanceWriter == [ResponseWriter |-> rw,
                              statusCode     |-> m.statusCode,
                              headerSet      |-> FALSE]
        proxyReq == [req EXCEPT !.URL.Host   = m.maintenanceService.Host,
                                !.URL.Scheme = m.maintenanceService.Scheme,
                                !.Host       = m.maintenanceService.Host]
    IN Served(proxyServeHTTP(m, maintenanceWriter, backend).ResponseWriter,
              <<>>, m, proxyReq, proxyReq, Reason("maintenance", Empty))

\* req.Clone gives proxyReq a URL and a header map of its own, so the three
\* assignments reach the clone alone
proxyToMaintenanceService(m, rw, req, backend) ==
    LET maintenanceWriter == [ResponseWriter |-> rw,
                              statusCode     |-> m.statusCode,
                              headerSet      |-> FALSE]
        proxyReq == [req EXCEPT !.URL.Host   = m.maintenanceService.Host,
                                !.URL.Scheme = m.maintenanceService.Scheme,
                                !.Host       = m.maintenanceService.Host]
    IN [Served(proxyServeHTTP(m, maintenanceWriter, backend).ResponseWriter,
               <<>>, m, req, proxyReq, Reason("maintenance", Empty))
        EXCEPT !.log = IF backend.err
                       THEN log(m, LogLevelError, "Error proxying to maintenance service")
                       ELSE <<>>]

\* the four headers of every maintenance response
setMaintenanceHeaders(m, rw) ==
    RwHeaderSet(
        RwHeaderSet(
            RwHeaderSet(
                RwHeaderSet(rw, Middleware, str_XMaintenanceMode, str_true),
                Middleware, str_CacheControl, str_noCache),
            Middleware, str_RetryAfter, str_3600),
        Middleware, str_ContentType, m.contentType)

\* a dispatch that looks at the sources in the order New does: the file
\* first, then the inline content, then the service
serveMaintenance_fileFirst(m, rw0, req, file, backend, writeErr) ==
    LET rw == setMaintenanceHeaders(m, rw0) IN
    IF m.maintenanceFilePath # "" THEN serveMaintenanceFile(m, rw, req, file)
    ELSE IF m.maintenanceContent # "" THEN serveMaintenanceContent(m, rw, req, writeErr)
    ELSE IF ~m.maintenanceService.nil THEN proxyToMaintenanceService(m, rw, req, backend)
    ELSE Served(RwWrite(RwWriteHeader(rw, Middleware, m.statusCode),
                        Middleware, UnavailableBody),
                <<>>, m, req, NoRequest, Reason("maintenance", Empty))

\* the part of ServeHTTP after the bypass rules
serveMaintenance(m, rw0, req, file, backend, writeErr) ==
    LET rw == setMaintenanceHeaders(m, rw0) IN
    IF m.maintenanceContent # "" THEN serveMaintenanceContent(m, rw, req, writeErr)
    ELSE IF m.maintenanceFilePath # "" THEN serveMaintenanceFile(m, rw, req, file)
    ELSE IF ~m.maintenanceService.nil THEN proxyToMaintenanceService(m, rw, req, backend)
    ELSE Served(RwWrite(RwWriteHeader(rw, Middleware, m.statusCode),
                        Middleware, UnavailableBody),
                <<>>, m, req, NoRequest, Reason("maintenance", Empty))

\* the conditions under which ServeHTTP, once past the header rule, reaches
\* its call of getJWTClaimValue
jwtParsed(m, req) ==
    /\ m.bypassJWTTokenHeader # Empty
    /\ m.bypassJWTTokenClaim # Empty
    /\ m.bypassJWTTokenClaimValue # Empty
    /\ HeaderGet(req.Header, m.bypassJWTTokenHeader) # Empty

\* a ServeHTTP that looks at the token before the bypass header
ServeHTTP_jwtBeforeHeader(m, rw, req, file, backend, writeErr) ==
    IF ~isMaintenanceEnabled(m, req) THEN passThrough(m, rw, req, Reason("disabled", Empty))
    ELSE IF faviconBypass(m, req) THEN passThrough(m, rw, req, Reason("favicon", Empty))
    ELSE IF pathBypass(m, req)
         THEN passThrough(m, rw, req, Reason("path", firstMatchingPath(m, req)))
    ELSE IF jwtBypass(m, req)
         THEN [passThrough(m, rw, req, Reason("jwt", Empty)) EXCEPT !.parsed = TRUE]
    ELSE IF headerBypass(m, req)
         THEN [passThrough(m, rw, req, Reason("header", Empty))
               EXCEPT !.parsed = jwtParsed(m, req)]
    ELSE [serveMaintenance(m, rw, req, file, backend, writeErr)
          EXCEPT !.parsed = jwtParsed(m, req)]

ServeHTTP(m, rw, req, file, backend, writeErr) ==
    IF ~isMaintenanceEnabled(m, req) THEN passThrough(m, rw, req, Reason("disabled", Empty))
    ELSE IF faviconBypass(m, req) THEN passThrough(m, rw, req, Reason("favicon", Empty))
    ELSE IF pathBypass(m, req)
         THEN passThrough(m, rw, req, Reason("path", firstMatchingPath(m, req)))
    ELSE IF headerBypass(m, req) THEN passThrough(m, rw, req, Reason("header", Empty))
    ELSE IF jwtBypass(m, req)
         THEN [passThrough(m, rw, req, Reason("jwt", Empty)) EXCEPT !.parsed = TRUE]
    ELSE [serveMaintenance(m, rw, req, file, backend, writeErr)
          EXCEPT !.parsed = jwtParsed(m, req)]

(***************************************************************************)
(* The state machine: one middleware instance behind a host server that    *)
(* hands it one request at a time, and the maintenance file on disk.       *)
(***************************************************************************)
VARIABLES
    config,     \* the Config given to New
    changes,    \* how far the run is from the defaults: the settings changed,
                \* the events on the maintenance file, the parts of the request
    file,       \* the file at config.MaintenanceFilePath
    pc,         \* "init", then "failed" or "ready"; "served" after a request
    m,          \* the MaintenanceBypass instance
    newErr,     \* the error New returned
    request,    \* the request as the host delivered it
    backend,    \* the outcome of the round trip to the maintenance service
    rw,         \* the response writer of the request
    nextCalls,  \* the calls of the downstream handler
    reqAfter,   \* the request object when ServeHTTP returns
    proxyReq,   \* the request sent to the maintenance service
    reason,     \* the branch of ServeHTTP the request took
    reads,      \* the calls of ioutil.ReadFile so far
    fileChanges, \* the changes of the file since New returned
    sameModTime, \* some write of the file left its modification time as it was
    loadTrace,  \* the instance as ServeHTTP found it, and whether the request
                \* called ioutil.ReadFile and getJWTClaimValue
    clientGone, \* the connection to the client is lost: rw.Write of the inline
                \* content returns an error
    logged,     \* the lines the request logged at error level
    writer,     \* a maintenanceResponseWriter under a caller of its own
    ops,        \* the calls that caller has made on it
    workers,    \* the goroutines serving file-strategy requests at once
    fileMutex,  \* who holds m.fileMutex exclusively
    loads,      \* the bytes and modification times the loads have stored
    extractor   \* a call of getJWTClaimValue on its own: the token, the claim
                \* name and, once it has returned, the value and the error

\* the variables of the writer alone, and of the concurrent requests alone
writerVars == <<writer, ops>>

concVars == <<workers, fileMutex, loads>>

\* the variables of one request served after another
requestVars == <<request, backend, rw, nextCalls, reqAfter, proxyReq, reason, reads,
                 loadTrace, clientGone, logged>>

vars == <<config, changes, file, pc, m, newErr, fileChanges, sameModTime, requestVars,
          writerVars, concVars, extractor>>

\* the most changes a run makes to the defaults
MaxChanges == 3

Configs ==
    { [config |-> ConfigOf(ch), changes |-> Changes(ch)] :
        ch \in { c \in ConfigChoices : Changes(c) <= MaxChanges } }

\* the requests, each with the number of its parts that differ from GET /
\* without headers
Requests ==
    { [req |-> RequestOf(ch), changes |-> Changes(ch)] :
        ch \in { c \in RequestChoices : Changes(c) <= MaxChanges } }

FileContents == {"", "<html>page v1</html>", "<html>page v2</html>"}

NoFile == [exists |-> FALSE, readable |-> FALSE, modTime |-> ZeroTime, content |-> ""]

\* the file as the default run finds it: there, readable, not empty
DefaultFile ==
    [exists |-> TRUE, readable |-> TRUE, modTime |-> 1, content |-> "<html>page v1</html>"]

NoReason == Reason("none", Empty)

NoLoad == [m |-> NilInstance, read |-> FALSE, parsed |-> FALSE]

\* no request has come in
NoRequestYet ==
    /\ request = NoRequest
    /\ backend = NoBackend
    /\ rw = NewRecorder
    /\ nextCalls = <<>>
    /\ reqAfter = NoRequest
    /\ proxyReq = NoRequest
    /\ reason = NoReason
    /\ reads = 0
    /\ loadTrace = NoLoad
    /\ clientGone = FALSE
    /\ logged = <<>>

NilWriter == [nil |-> TRUE]

\* no call of getJWTClaimValue on its own
NoExtractor == [nil |-> TRUE]

ExtractorUnused == extractor = NoExtractor

\* no maintenanceResponseWriter is under a caller of its own
WriterUnused ==
    /\ writer = NilWriter
    /\ ops = <<>>

\* the most goroutines serving requests at once
MaxGoroutines == 2

Goroutines == 1..MaxGoroutines

\* a goroutine between two requests
IdleWorker == [pc |-> "idle", modTime |-> ZeroTime, content |-> NilBytes, err |-> FALSE,
               code |-> 0, body |-> <<>>]

MutexFree == 0

\* requests are served one after another
WorkersUnused ==
    /\ workers = [g \in Goroutines |-> IdleWorker]
    /\ fileMutex = MutexFree
    /\ loads = {}

Init ==
    /\ \E c \in Configs :
        /\ config = c.config
        /\ changes = c.changes
    /\ file = IF config.MaintenanceFilePath # "" THEN DefaultFile ELSE NoFile
    /\ pc = "init"
    /\ m = NilInstance
    /\ newErr = ErrNil
    /\ fileChanges = 0
    /\ sameModTime = FALSE
    /\ NoRequestYet
    /\ WriterUnused
    /\ WorkersUnused
    /\ ExtractorUnused

\* the reads counted, up to a cap: past it the count stays
ReadsCap == MaxChanges + 2

CountRead(n, read) == IF read /\ n < ReadsCap THEN n + 1 ELSE n

\* a change of the file counts once New has returned
CountChange(n) == IF pc = "init" THEN n ELSE n + 1

\* the events on the maintenance file.  A write leaves the modification time
\* later than it was, or as it was (a write within the resolution of the
\* file system's clock, a copy that keeps the time of its source)
WriteFile ==
    /\ pc \in {"init", "ready"}
    /\ config.MaintenanceFilePath # ""
    /\ changes < MaxChanges
    /\ \E c \in FileContents : \E t \in {file.modTime, file.modTime + 1} :
        /\ file' = [exists |-> TRUE, readable |-> TRUE, modTime |-> t, content |-> c]
        /\ file' # file
        /\ sameModTime' = (sameModTime \/ t = file.modTime)
    /\ changes' = changes + 1
    /\ fileChanges' = CountChange(fileChanges)
    /\ UNCHANGED <<config, pc, m, newErr, request, backend, rw, nextCalls,
                   reqAfter, proxyReq, reason, reads, loadTrace,
                   clientGone, logged>>
    /\ UNCHANGED <<writerVars, concVars, extractor>>

RemoveFile ==
    /\ pc \in {"init", "ready"}
    /\ config.MaintenanceFilePath # ""
    /\ changes < MaxChanges
    /\ file.exists
    /\ file' = [file EXCEPT !.exists = FALSE]
    /\ UNCHANGED sameModTime
    /\ changes' = changes + 1
    /\ fileChanges' = CountChange(fileChanges)
    /\ UNCHANGED <<config, pc, m, newErr, request, backend, rw, nextCalls,
                   reqAfter, proxyReq, reason, reads, loadTrace,
                   clientGone, logged>>
    /\ UNCHANGED <<writerVars, concVars, extractor>>

\* the file made unreadable (its permissions taken away)
ChmodFile ==
    /\ pc \in {"init", "ready"}
    /\ config.MaintenanceFilePath # ""
    /\ changes < MaxChanges
    /\ file.exists /\ file.readable
    /\ file' = [file EXCEPT !.readable = FALSE]
    /\ UNCHANGED sameModTime
    /\ changes' = changes + 1
    /\ fileChanges' = CountChange(fileChanges)
    /\ UNCHANGED <<config, pc, m, newErr, request, backend, rw, nextCalls,
                   reqAfter, proxyReq, reason, reads, loadTrace,
                   clientGone, logged>>
    /\ UNCHANGED <<writerVars, concVars, extractor>>

\* New(ctx, next, config, name)
CallNew ==
    /\ pc = "init"
    /\ \E r \in {New(config, file)} :
        /\ m' = r.m
        /\ newErr' = r.err
        /\ pc' = IF r.err = ErrNil THEN "ready" ELSE "failed"
        /\ reads' = CountRead(reads, r.read)
    /\ UNCHANGED <<config, changes, file, request, backend, rw, nextCalls,
                   reqAfter, proxyReq, reason, fileChanges, sameModTime, loadTrace,
                   clientGone, logged>>
    /\ UNCHANGED <<writerVars, concVars, extractor>>

\* the instance built without New, with no content source at all
LiteralInstance ==
    [ NewInstance([CreateConfig EXCEPT !.BypassHeader = Empty,
                                       !.BypassHeaderValue = Empty,
                                       !.BypassJWTTokenHeader = Empty,
                                       !.BypassFavicon = FALSE,
                                       !.LogLevel = 0,
                                       !.EnabledAnnotationValue = Empty])
      EXCEPT !.contentType = Empty ]

\* &MaintenanceBypass{enabled: true, statusCode: 503}: the instance a caller
\* inside the package builds when New has refused the configuration
NewLiteral ==
    /\ pc = "failed"
    /\ config.MaintenanceContent = ""
    /\ config.MaintenanceFilePath = ""
    /\ config.MaintenanceService = Empty
    /\ m' = LiteralInstance
    /\ pc' = "ready"
    /\ UNCHANGED <<config, changes, file, newErr, request, backend, rw, nextCalls,
                   reqAfter, proxyReq, reason, reads, fileChanges, sameModTime, loadTrace,
                   clientGone, logged>>
    /\ UNCHANGED <<writerVars, concVars, extractor>>

\* the outcomes of rw.Write for the inline content: the write succeeds, or,
\* as one more departure from the default run, the client is gone
WriteOutcomes(q) ==
    IF m.maintenanceContent # "" /\ changes + q.changes < MaxChanges
    THEN BOOLEAN ELSE {FALSE}

\* m.ServeHTTP(rw, req) on a fresh response writer
CallServeHTTP ==
    /\ pc = "ready"
    /\ \E q \in { x \in Requests : changes + x.changes <= MaxChanges } :
       \E b \in (IF m.maintenanceService.nil THEN {NoBackend} ELSE BackendOutcomes) :
       \E gone \in WriteOutcomes(q) :
       \E r \in {ServeHTTP(m, rw, q.req, file, b, gone)} :
        /\ request' = q.req
        /\ backend' = b
        /\ clientGone' = gone
        /\ logged' = r.log
        /\ rw' = r.rw
        /\ nextCalls' = r.nextCalls
        /\ m' = r.m
        /\ reqAfter' = r.req
        /\ proxyReq' = r.proxyReq
        /\ reason' = r.reason
        /\ reads' = CountRead(reads, r.read)
        /\ loadTrace' = [m |-> m, read |-> r.read, parsed |-> r.parsed]
    /\ pc' = "served"
    /\ UNCHANGED <<config, changes, file, newErr, fileChanges, sameModTime>>
    /\ UNCHANGED <<writerVars, concVars, extractor>>

\* the host has sent the response and is ready for the next request, with
\* a new response writer
Respond ==
    /\ pc = "served"
    /\ pc' = "ready"
    /\ request' = NoRequest
    /\ backend' = NoBackend
    /\ rw' = NewRecorder
    /\ nextCalls' = <<>>
    /\ reqAfter' = NoRequest
    /\ proxyReq' = NoRequest
    /\ reason' = NoReason
    /\ loadTrace' = NoLoad
    /\ clientGone' = FALSE
    /\ logged' = <<>>
    /\ UNCHANGED <<config, changes, file, m, newErr, reads, fileChanges, sameModTime>>
    /\ UNCHANGED <<writerVars, concVars, extractor>>

Next ==
    \/ CallNew
    \/ NewLiteral
    \/ CallServeHTTP
    \/ Respond
    \/ WriteFile
    \/ RemoveFile
    \/ ChmodFile

Spec == Init /\ [][Next]_vars

(***************************************************************************)
(* The maintenanceResponseWriter alone: a caller makes any calls of         *)
(* WriteHeader and Write on it, in any order.                               *)
(***************************************************************************)
\* the most calls the caller makes
MaxCalls == 4

\* the codes the writer is built with, and the codes the caller passes
OverrideCodes == {DefaultStatusCode, 429, StatusOK}

CallerCodes == {StatusOK, 404, 502}

Chunks == {"<html>", "</html>"}

\* &maintenanceResponseWriter{ResponseWriter: rw, statusCode: m.statusCode}
NewWriter(rw0, statusCode) ==
    [ResponseWriter |-> rw0, statusCode |-> statusCode, headerSet |-> FALSE]

InitWriter ==
    /\ config = CreateConfig
    /\ changes = 0
    /\ file = NoFile
    /\ pc = "init"
    /\ m = NilInstance
    /\ newErr = ErrNil
    /\ fileChanges = 0
    /\ sameModTime = FALSE
    /\ NoRequestYet
    /\ WorkersUnused
    /\ ExtractorUnused
    /\ \E c \in OverrideCodes : writer = NewWriter(NewRecorder, c)
    /\ ops = <<>>

CallWriteHeader ==
    /\ Len(ops) < MaxCalls
    /\ \E c \in CallerCodes :
        /\ writer' = WriteHeader(writer, c)
        /\ ops' = Append(ops, [op |-> "WriteHeader", code |-> c, b |-> ""])
    /\ UNCHANGED <<config, changes, file, pc, m, newErr, fileChanges, sameModTime, requestVars,
                   concVars, extractor>>

CallWrite ==
    /\ Len(ops) < MaxCalls
    /\ \E b \in Chunks :
        /\ writer' = Write(writer, b)
        /\ ops' = Append(ops, [op |-> "Write", code |-> 0, b |-> b])
    /\ UNCHANGED <<config, changes, file, pc, m, newErr, fileChanges, sameModTime, requestVars,
                   concVars, extractor>>

NextWriter ==
    \/ CallWriteHeader
    \/ CallWrite

SpecWriter == InitWriter /\ [][NextWriter]_vars

(***************************************************************************)
(* Requests served at once: the host runs ServeHTTP on several goroutines. *)
(* Each goroutine here serves non-bypassed requests of the file strategy,   *)
(* one statement of loadMaintenanceFile and serveMaintenanceFile at a time, *)
(* while the file changes.  A goroutine's pc names its next statement.      *)
(***************************************************************************)
\* the configurations whose requests the file strategy serves
FileStrategyConfigs ==
    { c \in Configs : /\ c.config.MaintenanceFilePath # ""
                      /\ c.config.MaintenanceContent = ""
                      /\ c.changes = 1 }

CachePair(bytes, lastMod) == [bytes |-> bytes, lastMod |-> lastMod]

\* New has returned the instance, its cache loaded from the file
InitConc ==
    /\ \E c \in FileStrategyConfigs :
        /\ config = c.config
        /\ changes = c.changes
    /\ file = DefaultFile
    /\ pc = "ready"
    /\ m = New(config, file).m
    /\ newErr = ErrNil
    /\ fileChanges = 0
    /\ sameModTime = FALSE
    /\ NoRequestYet
    /\ WriterUnused
    /\ ExtractorUnused
    /\ workers = [g \in Goroutines |-> IdleWorker]
    /\ fileMutex = MutexFree
    /\ loads = {CachePair(file.content, file.modTime)}

\* what a step of a goroutine leaves alone, but for the instance, the mutex
\* and the loads
ConcFrame ==
    UNCHANGED <<config, changes, file, pc, newErr, fileChanges, sameModTime, requestVars, writerVars,
                extractor>>

\* ServeHTTP has found no bypass and calls serveMaintenanceFile
BeginRequest(g) ==
    /\ pc = "ready"
    /\ workers[g].pc = "idle"
    /\ m.maintenanceContent = "" /\ m.maintenanceFilePath # ""
    /\ workers' = [workers EXCEPT ![g].pc = "Lock"]
    /\ ConcFrame
    /\ UNCHANGED <<m, fileMutex, loads>>

\* the goroutine is between m.fileMutex.RLock() and m.fileMutex.RUnlock()
ReadLocked(g) == workers[g].pc \in {"ReadCache", "RUnlock"}

\* m.fileMutex.Lock(): it returns when no goroutine holds the mutex, neither
\* exclusively nor shared
Lock(g) ==
    /\ workers[g].pc = "Lock"
    /\ fileMutex = MutexFree
    /\ \A h \in Goroutines : ~ReadLocked(h)
    /\ fileMutex' = g
    /\ workers' = [workers EXCEPT ![g].pc = "Stat"]
    /\ ConcFrame
    /\ UNCHANGED <<m, loads>>

\* os.Stat, and the test whether the file is newer than the cache
Stat(g) ==
    /\ workers[g].pc = "Stat"
    /\ workers' =
         IF ~file.exists
         THEN [workers EXCEPT ![g].pc = "Unlock", ![g].err = TRUE]
         ELSE IF m.maintenanceFileContent # NilBytes
                 /\ ~(file.modTime > m.maintenanceFileLastMod)
              THEN [workers EXCEPT ![g].pc = "Unlock"]
         ELSE [workers EXCEPT ![g].pc = "ReadFile", ![g].modTime = file.modTime]
    /\ ConcFrame
    /\ UNCHANGED <<m, fileMutex, loads>>

\* a read that takes the content as it is, without the test for emptiness
ReadFile_noEmptyTest(g) ==
    /\ workers[g].pc = "ReadFile"
    /\ IF ~file.exists \/ ~file.readable
       THEN /\ workers' = [workers EXCEPT ![g].pc = "Unlock", ![g].err = TRUE]
            /\ loads' = loads
       ELSE /\ workers' = [workers EXCEPT ![g].pc = "StoreContent",
                                          ![g].content = file.content]
            /\ loads' = loads \cup {CachePair(file.content, workers[g].modTime)}
    /\ ConcFrame
    /\ UNCHANGED <<m, fileMutex>>

\* ioutil.ReadFile, and the test whether the content is empty
ReadFile(g) ==
    /\ workers[g].pc = "ReadFile"
    /\ IF ~file.exists \/ ~file.readable \/ file.content = ""
       THEN /\ workers' = [workers EXCEPT ![g].pc = "Unlock", ![g].err = TRUE]
            /\ loads' = loads
       ELSE /\ workers' = [workers EXCEPT ![g].pc = "StoreContent",
                                          ![g].content = file.content]
            /\ loads' = loads \cup {CachePair(file.content, workers[g].modTime)}
    /\ ConcFrame
    /\ UNCHANGED <<m, fileMutex>>

\* a store of the content that gives the mutex up before the timestamp is
\* stored
StoreContent_unlocks(g) ==
    /\ workers[g].pc = "StoreContent"
    /\ m' = [m EXCEPT !.maintenanceFileContent = workers[g].content]
    /\ fileMutex' = MutexFree
    /\ workers' = [workers EXCEPT ![g].pc = "StoreLastMod"]
    /\ ConcFrame
    /\ UNCHANGED loads

\* m.maintenanceFileContent = content
StoreContent(g) ==
    /\ workers[g].pc = "StoreContent"
    /\ m' = [m EXCEPT !.maintenanceFileContent = workers[g].content]
    /\ workers' = [workers EXCEPT ![g].pc = "StoreLastMod"]
    /\ ConcFrame
    /\ UNCHANGED <<fileMutex, loads>>

\* m.maintenanceFileLastMod = fileInfo.ModTime()
StoreLastMod(g) ==
    /\ workers[g].pc = "StoreLastMod"
    /\ m' = [m EXCEPT !.maintenanceFileLastMod = workers[g].modTime]
    /\ workers' = [workers EXCEPT ![g].pc = "Unlock"]
    /\ ConcFrame
    /\ UNCHANGED <<fileMutex, loads>>

\* an Unlock that is not deferred: the error returns leave the mutex held
Unlock_notOnError(g) ==
    /\ workers[g].pc = "Unlock"
    /\ fileMutex' = IF workers[g].err THEN g ELSE MutexFree
    /\ workers' = [workers EXCEPT ![g].pc = IF workers[g].err THEN "Error" ELSE "RLock",
                                  ![g].content = NilBytes,
                                  ![g].modTime = ZeroTime]
    /\ ConcFrame
    /\ UNCHANGED <<m, loads>>

\* the deferred m.fileMutex.Unlock(), and the return to serveMaintenanceFile
Unlock(g) ==
    /\ workers[g].pc = "Unlock"
    /\ fileMutex' = MutexFree
    /\ workers' = [workers EXCEPT ![g].pc = IF workers[g].err THEN "Error" ELSE "RLock",
                                  ![g].content = NilBytes,
                                  ![g].modTime = ZeroTime]
    /\ ConcFrame
    /\ UNCHANGED <<m, loads>>

\* m.fileMutex.RLock(): it returns when no goroutine holds the mutex
\* exclusively; other readers do not hold it back
RLock(g) ==
    /\ workers[g].pc = "RLock"
    /\ fileMutex = MutexFree
    /\ workers' = [workers EXCEPT ![g].pc = "ReadCache"]
    /\ ConcFrame
    /\ UNCHANGED <<m, fileMutex, loads>>

\* content := m.maintenanceFileContent
ReadCache(g) ==
    /\ workers[g].pc = "ReadCache"
    /\ workers' = [workers EXCEPT ![g].pc = "RUnlock",
                                  ![g].content = m.maintenanceFileContent]
    /\ ConcFrame
    /\ UNCHANGED <<m, fileMutex, loads>>

\* m.fileMutex.RUnlock()
RUnlock(g) ==
    /\ workers[g].pc = "RUnlock"
    /\ workers' = [workers EXCEPT ![g].pc = "WriteResponse"]
    /\ ConcFrame
    /\ UNCHANGED <<m, fileMutex, loads>>

\* rw.WriteHeader(m.statusCode); rw.Write(content)
WriteResponse(g) ==
    /\ workers[g].pc = "WriteResponse"
    /\ workers' = [workers EXCEPT ![g].pc = "done",
                                  ![g].code = m.statusCode,
                                  ![g].body = <<workers[g].content>>]
    /\ ConcFrame
    /\ UNCHANGED <<m, fileMutex, loads>>

\* http.Error(rw, "Service Temporarily Unavailable", m.statusCode)
WriteError(g) ==
    /\ workers[g].pc = "Error"
    /\ workers' = [workers EXCEPT ![g].pc = "done",
                                  ![g].code = m.statusCode,
                                  ![g].body = <<FileErrorBody>>]
    /\ ConcFrame
    /\ UNCHANGED <<m, fileMutex, loads>>

\* ServeHTTP returns; the goroutine takes the next request
Return(g) ==
    /\ workers[g].pc = "done"
    /\ workers' = [workers EXCEPT ![g] = IdleWorker]
    /\ ConcFrame
    /\ UNCHANGED <<m, fileMutex, loads>>

NextConc ==
    \/ WriteFile
    \/ RemoveFile
    \/ ChmodFile
    \/ \E g \in Goroutines :
        \/ BeginRequest(g)
        \/ Lock(g)
        \/ Stat(g)
        \/ ReadFile(g)
        \/ StoreContent(g)
        \/ StoreLastMod(g)
        \/ Unlock(g)
        \/ RLock(g)
        \/ ReadCache(g)
        \/ RUnlock(g)
        \/ WriteResponse(g)
        \/ WriteError(g)
        \/ Return(g)

SpecConc == InitConc /\ [][NextConc]_vars

\* a goroutine that has a request runs on: every step but the two that wait
\* for the mutex is taken once it can be (the scheduler runs every runnable
\* goroutine, and Stat and ReadFile return)
Run(g) ==
    \/ Stat(g)
    \/ ReadFile(g)
    \/ StoreContent(g)
    \/ StoreLastMod(g)
    \/ Unlock(g)
    \/ ReadCache(g)
    \/ RUnlock(g)
    \/ WriteResponse(g)
    \/ WriteError(g)
    \/ Return(g)

\* the instance as InitConc has it, in a run in which the file changes once
\* at most
InitConcFair ==
    /\ \E c \in FileStrategyConfigs : config = c.config
    /\ changes = MaxChanges - 1
    /\ file = DefaultFile
    /\ pc = "ready"
    /\ m = New(config, file).m
    /\ newErr = ErrNil
    /\ fileChanges = 0
    /\ sameModTime = FALSE
    /\ NoRequestYet
    /\ WriterUnused
    /\ ExtractorUnused
    /\ workers = [g \in Goroutines |-> IdleWorker]
    /\ fileMutex = MutexFree
    /\ loads = {CachePair(file.content, file.modTime)}

\* the same goroutines under the scheduling sync.RWMutex gives: a goroutine
\* waiting in Lock or RLock gets the mutex when it is free again and again
\* (a waiting Lock is handed the mutex ahead of later callers, and Unlock
\* releases every waiting RLock).  When requests arrive and when the file
\* changes is up to the environment
SpecConcFair ==
    /\ InitConcFair
    /\ [][NextConc]_vars
    /\ \A g \in Goroutines :
        /\ WF_vars(Run(g))
        /\ SF_vars(Lock(g))
        /\ SF_vars(RLock(g))

(***************************************************************************)
(* The terms of the specification, over the state a served request leaves: *)
(* the instance m, the request as delivered, the response writer rw and    *)
(* the calls of the downstream handler.                                    *)
(***************************************************************************)
\* ServeHTTP has returned and the response is not yet handed back
RequestServed == pc = "served"

\* effective enablement: the static flag, or the annotation pair in the
\* annotation header of the request
EffectivelyEnabled ==
    \/ m.enabled
    \/ /\ m.enabledAnnotation # Empty
       /\ m.enabledAnnotationHeader # Empty
       /\ Contains(HeaderGet(request.Header, m.enabledAnnotationHeader),
                   m.enabledAnnotation \o <<"=">> \o m.enabledAnnotationValue)

FaviconRule == m.bypassFavicon /\ HasSuffix(request.URL.Path, str_favicon)

PathRule ==
    \E i \in 1..Len(m.bypassPaths) : HasPrefix(request.URL.Path, m.bypassPaths[i])

\* the request's value for the bypass header
BypassHeaderSent == HeaderGet(request.Header, m.bypassHeader)

HeaderRule == m.bypassHeader # Empty /\ BypassHeaderSent = m.bypassHeaderValue

JWTConfigured ==
    /\ m.bypassJWTTokenHeader # Empty
    /\ m.bypassJWTTokenClaim # Empty
    /\ m.bypassJWTTokenClaimValue # Empty

\* the token the JWT header of the request carries
TokenSent == tokenString(HeaderGet(request.Header, m.bypassJWTTokenHeader))

\* the token has three segments, its payload decodes to a JSON object, and
\* the object has the claim with the expected value as its string form
TokenMatches ==
    LET parts == Split(TokenSent, ".") IN
    /\ Len(parts) = 3
    /\ LET payload == Base64RawURLDecode(parts[2]) IN
       /\ ~payload.err
       /\ LET parsed == JSONUnmarshalMap(payload.bytes) IN
          /\ ~parsed.err
          /\ MapHas(parsed.claims, m.bypassJWTTokenClaim)
          /\ SprintfV(MapGet(parsed.claims, m.bypassJWTTokenClaim))
             = m.bypassJWTTokenClaimValue

JWTRule == JWTConfigured /\ TokenMatches

\* the request was handed to the downstream handler
PassedThrough == nextCalls # <<>>

\* the response the client sees is a maintenance response: the configured
\* status, X-Maintenance-Mode: true and a Retry-After
MaintenanceResponse ==
    /\ rw.wroteHeader
    /\ rw.code = m.statusCode
    /\ HeaderGet(rw.sent, str_XMaintenanceMode) = str_true
    /\ HeaderGet(rw.sent, str_RetryAfter) # Empty

\* C1: a request served while maintenance is effectively enabled and no
\* bypass rule (favicon, path, header, JWT) matches gets the configured
\* status code, X-Maintenance-Mode: true and a non-empty Retry-After,
\* whichever content strategy serves it and also when the strategy fails.
C1_MaintenanceStatusAndHeaders ==
    (/\ RequestServed
     /\ EffectivelyEnabled
     /\ ~FaviconRule /\ ~PathRule /\ ~HeaderRule /\ ~JWTRule)
    => MaintenanceResponse

\* the file strategy after the file was lost: the reload fails
C1_Witness ==
    /\ RequestServed
    /\ EffectivelyEnabled
    /\ ~FaviconRule /\ ~PathRule /\ ~HeaderRule /\ ~JWTRule
    /\ m.maintenanceContent = ""
    /\ m.maintenanceFilePath # ""
    /\ ~file.exists
    /\ rw.body = <<FileErrorBody>>
    /\ MaintenanceResponse

\* C2: a request that is passed through (maintenance not effectively
\* enabled, or a bypass rule matching) leaves the response untouched by the
\* middleware: the downstream handler is called once with the original
\* writer and the unmodified request, every call on the writer is the
\* handler's, and the response is what the handler produces on a fresh
\* writer.
C2_PassThroughUntouched ==
    (/\ RequestServed
     /\ (~EffectivelyEnabled \/ FaviconRule \/ PathRule \/ HeaderRule \/ JWTRule))
    => /\ nextCalls = << [writer |-> "rw", req |-> request] >>
       /\ reqAfter = request
       /\ proxyReq = NoRequest
       /\ \A i \in 1..Len(rw.calls) : rw.calls[i][1] = NextHandler
       /\ rw = nextServeHTTP(NewRecorder, request)

C2_Witness ==
    /\ RequestServed
    /\ EffectivelyEnabled
    /\ ~FaviconRule /\ ~PathRule /\ ~JWTRule
    /\ HeaderRule
    /\ nextCalls = << [writer |-> "rw", req |-> request] >>
    /\ rw.code = StatusOK
    /\ rw.body = <<RealServiceContent>>

CarriesBypassHeader == CanonicalMIMEHeaderKey(m.bypassHeader) \in DOMAIN request.Header

\* no rule but the header rule can let the request through
OnlyHeaderRuleLeft ==
    /\ RequestServed
    /\ EffectivelyEnabled
    /\ m.bypassHeader # Empty
    /\ ~FaviconRule /\ ~PathRule /\ ~JWTRule

\* C4: with maintenance enabled, a bypass header configured and no other
\* rule matching, a request that carries the header with exactly the
\* expected value reaches the downstream handler, whatever the letter case
\* of the header name, and a request whose value for the header differs
\* from the expected value, be it only in letter case, gets the maintenance
\* response.
C4_HeaderBypassExactValue ==
    OnlyHeaderRuleLeft
    => /\ (CarriesBypassHeader /\ BypassHeaderSent = m.bypassHeaderValue) => PassedThrough
       /\ BypassHeaderSent # m.bypassHeaderValue
            => (~PassedThrough /\ MaintenanceResponse)

\* the value differs from the expected one in letter case only, and the
\* header name of the request in letter case from the configured one
C4_Witness ==
    /\ OnlyHeaderRuleLeft
    /\ m.bypassHeader = str_XMaintenanceBypass
    /\ m.bypassHeaderValue = str_true
    /\ CarriesBypassHeader
    /\ BypassHeaderSent = <<"T", "R", "U", "E">>
    /\ ~PassedThrough
    /\ MaintenanceResponse

\* C5: the header rule requires the bypass header to be present: with a
\* bypass header name configured, whatever the expected value, a request
\* without that header is never let through by the header rule, and gets
\* the maintenance response when maintenance is enabled and no favicon,
\* path or JWT rule matches.
C5_HeaderRuleNeedsHeader ==
    (OnlyHeaderRuleLeft /\ ~CarriesBypassHeader)
    => (~PassedThrough /\ MaintenanceResponse)

\* no rule but the JWT rule can let the request through
OnlyJWTRuleLeft ==
    /\ RequestServed
    /\ EffectivelyEnabled
    /\ ~FaviconRule /\ ~PathRule /\ ~HeaderRule

\* C6: with maintenance enabled, the JWT header, claim name and expected
\* value configured and no other rule matching, a request reaches the
\* downstream handler exactly when its JWT header carries a token of three
\* segments whose payload decodes and holds the claim with the expected
\* value as its string form; every other request (another value, a
\* malformed token, an undecodable payload, no claim, no header) gets the
\* maintenance response with the configured status.
C6_JWTBypassIff ==
    (OnlyJWTRuleLeft /\ JWTConfigured)
    => /\ PassedThrough <=> TokenMatches
       /\ ~TokenMatches => MaintenanceResponse

\* a token of four segments is refused and the request served as any other
C6_Witness ==
    /\ OnlyJWTRuleLeft
    /\ JWTConfigured
    /\ TokenSent = jwt_fourSegments
    /\ ~TokenMatches
    /\ ~PassedThrough
    /\ MaintenanceResponse

\* C7: when the JWT header name, the claim name or the expected value is
\* empty, no token lets a request through: with no other rule matching, the
\* request gets the maintenance response even if the claim of its token
\* equals the expected value.
C7_JWTRuleNeedsAllThree ==
    (OnlyJWTRuleLeft /\ ~JWTConfigured) => (~PassedThrough /\ MaintenanceResponse)

\* the expected value is empty and the token holds the claim with the empty
\* string as its value
C7_Witness ==
    /\ OnlyJWTRuleLeft
    /\ m.bypassJWTTokenHeader # Empty
    /\ m.bypassJWTTokenClaim # Empty
    /\ m.bypassJWTTokenClaimValue = Empty
    /\ TokenSent = jwt_emptyValue
    /\ TokenMatches
    /\ ~PassedThrough

\* the request asks for a favicon
FaviconRequest == HasSuffix(request.URL.Path, str_favicon)

\* C8 as stated: under maintenance, every favicon request reaches the
\* downstream handler when bypassFavicon is true, and every favicon request
\* gets the maintenance response when bypassFavicon is false.
C8_FaviconRuleAsStated ==
    (RequestServed /\ EffectivelyEnabled /\ FaviconRequest)
    => /\ m.bypassFavicon => PassedThrough
       /\ ~m.bypassFavicon => (~PassedThrough /\ MaintenanceResponse)

\* C8: under maintenance, every favicon request reaches the downstream
\* handler when bypassFavicon is true; when bypassFavicon is false, a
\* favicon request gets the maintenance response unless the path, header or
\* JWT rule lets it through.
C8_FaviconRule ==
    (RequestServed /\ EffectivelyEnabled /\ FaviconRequest)
    => /\ m.bypassFavicon => PassedThrough
       /\ (~m.bypassFavicon /\ ~PathRule /\ ~HeaderRule /\ ~JWTRule)
            => (~PassedThrough /\ MaintenanceResponse)
       /\ (~m.bypassFavicon /\ (PathRule \/ HeaderRule \/ JWTRule)) => PassedThrough

\* bypassFavicon is false and the favicon request carries the bypass header
C8_Witness ==
    /\ RequestServed
    /\ EffectivelyEnabled
    /\ FaviconRequest
    /\ ~m.bypassFavicon
    /\ ~PathRule /\ ~JWTRule
    /\ HeaderRule
    /\ PassedThrough

AnnotationConfigured == m.enabledAnnotation # Empty /\ m.enabledAnnotationHeader # Empty

\* the request's value of the annotation header
AnnotationSent == HeaderGet(request.Header, m.enabledAnnotationHeader)

\* the pair annotationName=annotationValue
AnnotationPair == m.enabledAnnotation \o <<"=">> \o m.enabledAnnotationValue

\* ServeHTTP took maintenance to be enabled for the request
TakenAsEnabled == reason.rule # "disabled"

\* C9: maintenance is taken as enabled for a request exactly when the
\* static flag is true or the annotation name and header are configured
\* and the request's annotation header contains name=value: a matching
\* annotation enables maintenance when the flag is false, and no annotation
\* header disables it when the flag is true.
C9_EnablementResolution ==
    RequestServed
    => /\ TakenAsEnabled <=>
            (m.enabled \/ (AnnotationConfigured /\ Contains(AnnotationSent, AnnotationPair)))
       /\ ~TakenAsEnabled => PassedThrough
       /\ (TakenAsEnabled /\ ~FaviconRule /\ ~PathRule /\ ~HeaderRule /\ ~JWTRule)
            => (~PassedThrough /\ MaintenanceResponse)

\* the flag is false and the annotation of the request enables maintenance
C9_Witness ==
    /\ RequestServed
    /\ ~m.enabled
    /\ AnnotationConfigured
    /\ AnnotationSent = ann_withOther
    /\ TakenAsEnabled
    /\ ~PassedThrough
    /\ MaintenanceResponse

\* one of the comma-joined entries of the annotation header is the pair
ExactAnnotationEntry ==
    \E i \in 1..Len(Split(AnnotationSent, ",")) :
        Split(AnnotationSent, ",")[i] = AnnotationPair

\* C10 as stated: with the flag false and annotation control configured,
\* maintenance is enabled only if an entry of the annotation header is
\* exactly name=value.
C10_AnnotationExactEntry ==
    (RequestServed /\ ~m.enabled /\ AnnotationConfigured)
    => (TakenAsEnabled => ExactAnnotationEntry)

\* C10: with the flag false and annotation control configured, maintenance
\* is enabled exactly when the annotation header contains name=value as a
\* substring, which an exact entry does; a header that does not contain it
\* (the annotation with another value, other annotations only, no header)
\* leaves the request passed through.
C10_AnnotationSubstring ==
    (RequestServed /\ ~m.enabled /\ AnnotationConfigured)
    => /\ TakenAsEnabled <=> Contains(AnnotationSent, AnnotationPair)
       /\ ExactAnnotationEntry => TakenAsEnabled
       /\ ~Contains(AnnotationSent, AnnotationPair) => PassedThrough

\* the pair lies inside a longer entry and enables maintenance all the same
C10_Witness ==
    /\ RequestServed
    /\ ~m.enabled
    /\ AnnotationConfigured
    /\ AnnotationSent = ann_inside
    /\ ~ExactAnnotationEntry
    /\ TakenAsEnabled
    /\ ~PassedThrough

(***************************************************************************)
(* Construction.                                                           *)
(***************************************************************************)
\* New has returned
Constructed == pc # "init"

\* the content sources the configuration populates
PopulatedSources ==
    (IF config.MaintenanceContent # "" THEN 1 ELSE 0)
    + (IF config.MaintenanceFilePath # "" THEN 1 ELSE 0)
    + (IF config.MaintenanceService # Empty THEN 1 ELSE 0)

\* C11: New returns an error for every configuration that does not populate
\* exactly one of inline content, file path and service address.
C11_ExactlyOneSource ==
    (Constructed /\ PopulatedSources # 1) => newErr # ErrNil

\* the file cannot be stat'ed, cannot be read, or is zero-length
FileUnusable == ~file.exists \/ ~file.readable \/ file.content = ""

FileConfigured == config.MaintenanceFilePath # ""

\* the service address is the only content source
ServiceOnly ==
    /\ config.MaintenanceFilePath = ""
    /\ config.MaintenanceContent = ""
    /\ config.MaintenanceService # Empty

ServiceIncomplete ==
    \/ URLParse(config.MaintenanceService).Scheme = Empty
    \/ URLParse(config.MaintenanceService).Host = Empty

\* the file is as New found it
FileAsConstructed == Constructed /\ fileChanges = 0

\* C12: with a file path configured, New fails when the file cannot be
\* stat'ed, cannot be read or is zero-length, and otherwise leaves the cache
\* holding the bytes and the modification time of the file; with the service
\* address as the only source, New fails when the address has no scheme or no
\* host.  A failed New returns no handler.
C12_ConstructionLoads ==
    /\ (FileAsConstructed /\ FileConfigured /\ FileUnusable) => newErr # ErrNil
    /\ (FileAsConstructed /\ FileConfigured /\ newErr = ErrNil) =>
            /\ m.maintenanceFileContent = file.content
            /\ m.maintenanceFileLastMod = file.modTime
    /\ (Constructed /\ ServiceOnly /\ ServiceIncomplete) => newErr # ErrNil
    /\ pc = "failed" => m = NilInstance

\* New has refused a zero-length file
C12_Witness ==
    /\ pc = "failed"
    /\ FileConfigured
    /\ file.exists /\ file.readable /\ file.content = ""

(***************************************************************************)
(* The file cache.                                                         *)
(***************************************************************************)
\* the request got the maintenance response of the file strategy
FileStrategyServed ==
    /\ RequestServed
    /\ reason.rule = "maintenance"
    /\ m.maintenanceContent = ""
    /\ m.maintenanceFilePath # ""

\* the cache as the request found it
CacheBefore ==
    [ bytes   |-> loadTrace.m.maintenanceFileContent,
      lastMod |-> loadTrace.m.maintenanceFileLastMod ]

CacheAfter ==
    [ bytes   |-> m.maintenanceFileContent,
      lastMod |-> m.maintenanceFileLastMod ]

\* the request found content in the cache and a file whose modification
\* time is not after the cached timestamp
CacheFresh ==
    /\ CacheBefore.bytes # NilBytes
    /\ file.exists
    /\ ~(file.modTime > CacheBefore.lastMod)

\* C13: when the cache holds content and the modification time of the file
\* is not strictly after the cached timestamp, the load of a file-strategy
\* request succeeds without reading the file and leaves the cached bytes and
\* timestamp as they were; and one more load on the unchanged file leaves
\* the cache as the first left it.
C13_CacheIdempotent ==
    FileStrategyServed =>
        /\ CacheFresh =>
                /\ ~loadTrace.read
                /\ CacheAfter = CacheBefore
                /\ rw.body = <<CacheBefore.bytes>>
        /\ loadMaintenanceFile(m, file).m = m

\* a request served from the cache after the file was written again with
\* the modification time it had
C13_Witness ==
    /\ FileStrategyServed
    /\ CacheFresh
    /\ fileChanges > 0
    /\ file.content # CacheBefore.bytes
    /\ ~loadTrace.read

\* the file holds new bytes: readable, not empty, and other than the cached
FileReplaced ==
    /\ file.exists /\ file.readable
    /\ file.content # ""
    /\ file.content # CacheBefore.bytes

\* the file-strategy request answered with the bytes now in the file
ServedNewBytes ==
    /\ loadTrace.read
    /\ rw.code = m.statusCode
    /\ rw.body = <<file.content>>
    /\ CacheAfter = [bytes |-> file.content, lastMod |-> file.modTime]

\* C14 as stated: once the content of the file is replaced by new non-empty
\* bytes, the next file-strategy maintenance request loads the file again
\* and answers with the new bytes.
C14_PickupAsStated ==
    (FileStrategyServed /\ FileReplaced) => ServedNewBytes

\* C14: once the content of the file is replaced by new non-empty bytes and
\* its modification time is strictly after the cached timestamp, the next
\* file-strategy maintenance request loads the file again and answers with
\* the new bytes; a replacement whose modification time is not after the
\* cached timestamp is not picked up, and the cached bytes are served.
C14_PickupOnLaterModTime ==
    (FileStrategyServed /\ FileReplaced) =>
        IF file.modTime > CacheBefore.lastMod
        THEN ServedNewBytes
        ELSE /\ ~loadTrace.read
             /\ rw.body = <<CacheBefore.bytes>>

\* a request that picked up the new bytes of a file written after New
C14_Witness ==
    /\ FileStrategyServed
    /\ FileReplaced
    /\ fileChanges > 0
    /\ file.modTime > CacheBefore.lastMod
    /\ rw.body = <<file.content>>

\* C15: the file is read in full at most once for each change of the file,
\* and once at construction, however many file-strategy requests are served
\* and whatever state the change leaves the file in.
C15_ReadsBoundedByChanges ==
    Constructed => reads <= fileChanges + 1

\* the load of the request failed: the file could not be stat'ed, or it had
\* to be read and could not be, or was zero-length
ReloadFailed ==
    \/ ~file.exists
    \/ /\ ~CacheFresh
       /\ (~file.readable \/ file.content = "")

\* C17: when the load fails while a file-strategy request is served, the
\* response has the configured status code and the generic failure body, not
\* the cached bytes, and the cached bytes and timestamp stay as they were.
C17_ReloadFailureDegrades ==
    (FileStrategyServed /\ ReloadFailed) =>
        /\ rw.wroteHeader
        /\ rw.code = m.statusCode
        /\ rw.body = <<FileErrorBody>>
        /\ CacheBefore.bytes \notin Range(rw.body)
        /\ m = loadTrace.m

\* a request served while the file, written after New, is zero-length
C17_Witness ==
    /\ FileStrategyServed
    /\ file.exists /\ file.readable /\ file.content = ""
    /\ loadTrace.read
    /\ CacheBefore.bytes # NilBytes

(***************************************************************************)
(* The service strategy.                                                   *)
(***************************************************************************)
\* the request got the maintenance response of the service strategy
ServiceStrategyServed ==
    /\ RequestServed
    /\ reason.rule = "maintenance"
    /\ m.maintenanceContent = ""
    /\ m.maintenanceFilePath = ""
    /\ ~m.maintenanceService.nil

\* every header of the response of the maintenance service is among the
\* headers sent to the caller
BackendHeadersSent ==
    \A i \in 1..Len(backend.header) :
        /\ CanonicalMIMEHeaderKey(backend.header[i][1]) \in DOMAIN rw.sent
        /\ backend.header[i][2]
               \in Range(rw.sent[CanonicalMIMEHeaderKey(backend.header[i][1])])

\* C18: in the service strategy the caller gets the configured status code,
\* whatever status the maintenance service returned, with the body and the
\* headers of its response; when the round trip fails the caller gets the
\* configured status code with the body "Service temporarily unavailable".
C18_ProxyStatusOverride ==
    ServiceStrategyServed =>
        /\ rw.wroteHeader
        /\ rw.code = m.statusCode
        /\ IF backend.err
           THEN rw.body = <<UnavailableBody>>
           ELSE /\ rw.body = (IF backend.body = "" THEN <<>> ELSE <<backend.body>>)
                /\ BackendHeadersSent

\* the maintenance service answered 200 with a page, and the configured
\* status code is another
C18_Witness ==
    /\ ServiceStrategyServed
    /\ ~backend.err
    /\ backend.status = StatusOK
    /\ backend.status # m.statusCode
    /\ rw.body = <<backend.body>>

\* C20: after the service strategy has served a request, the URL (scheme,
\* host, path), the Host field and the headers of the request are what they
\* were when the request came in; the request sent to the maintenance
\* service is a copy that differs in carrying the scheme and the host of the
\* service.
C20_RequestNotMutated ==
    ServiceStrategyServed =>
        /\ reqAfter = request
        /\ proxyReq.URL.Scheme = m.maintenanceService.Scheme
        /\ proxyReq.URL.Host = m.maintenanceService.Host
        /\ proxyReq.Host = m.maintenanceService.Host
        /\ proxyReq.URL.Path = request.URL.Path
        /\ proxyReq.Header = request.Header
        /\ proxyReq.Method = request.Method

\* a request for /api/status with a header, proxied to a service on
\* another host
C20_Witness ==
    /\ ServiceStrategyServed
    /\ request.URL.Path = path_apiStatus
    /\ DOMAIN request.Header # {}
    /\ proxyReq.Host # request.Host
    /\ reqAfter.Host = host_example

(***************************************************************************)
(* The Status-Override Writer.                                             *)
(***************************************************************************)
\* the wrapped writer, and the calls it has received
Sink == writer.ResponseWriter

IsWriteHeaderCall(c) == c[2] = "WriteHeader"

IsWriteOp(o) == o.op = "Write"

\* the chunks the caller has written, in the order of the calls
ChunksWritten ==
    [i \in 1..Len(SelectSeq(ops, IsWriteOp)) |-> SelectSeq(ops, IsWriteOp)[i].b]

\* C19: after any calls of WriteHeader and Write on a
\* maintenanceResponseWriter, with any codes, the wrapped writer has received
\* exactly one WriteHeader call if a call was made (none otherwise), that
\* call came before any body and carried the override code, and the body it
\* received is the chunks written, unchanged and in order.
C19_StatusOverrideWriter ==
    IF ops = <<>>
    THEN Sink = NewRecorder
    ELSE /\ Len(SelectSeq(Sink.calls, IsWriteHeaderCall)) = 1
         /\ IsWriteHeaderCall(Sink.calls[1])
         /\ Sink.wroteHeader
         /\ Sink.code = writer.statusCode
         /\ Sink.body = ChunksWritten

\* a chunk written first, then WriteHeader with another code, then a chunk
C19_Witness ==
    /\ Len(ops) = 3
    /\ ops[1].op = "Write"
    /\ ops[2].op = "WriteHeader"
    /\ ops[2].code # writer.statusCode
    /\ ops[3].op = "Write"
    /\ Len(Sink.body) = 2

(***************************************************************************)
(* The file cache under requests served at once.                           *)
(***************************************************************************)
\* the goroutine is inside loadMaintenanceFile, between Lock and Unlock
InExclusiveSection(g) ==
    workers[g].pc \in {"Stat", "ReadFile", "StoreContent", "StoreLastMod", "Unlock"}

\* the goroutine has written a response of the cached bytes
RespondedWithContent(g) == workers[g].pc = "done" /\ ~workers[g].err

\* C16: however the goroutines, the reloads and the changes of the file
\* interleave, the cached bytes and timestamp are replaced by the goroutine
\* that holds the mutex, so that outside the exclusive section the cache is
\* the bytes and the timestamp one load has stored; and the body of every
\* successful file-strategy response is the bytes that one ReadFile returned
\* in full, at the configured status code.
C16_AtomicCacheReplacement ==
    /\ \A g \in Goroutines : InExclusiveSection(g) => fileMutex = g
    /\ fileMutex = MutexFree =>
            CachePair(m.maintenanceFileContent, m.maintenanceFileLastMod) \in loads
    /\ \A g \in Goroutines :
            RespondedWithContent(g) =>
                /\ workers[g].code = m.statusCode
                /\ \E l \in loads : workers[g].body = <<l.bytes>>

\* a goroutine is about to write the bytes it took from the cache while
\* another, holding the mutex, has stored new bytes and not yet their
\* timestamp
C16_Witness ==
    \E g, h \in Goroutines :
        /\ workers[g].pc = "StoreLastMod"
        /\ workers[h].pc = "WriteResponse"
        /\ workers[h].content # m.maintenanceFileContent
        /\ m.maintenanceFileLastMod # workers[g].modTime

(***************************************************************************)
(* The headers of a maintenance response.                                  *)
(***************************************************************************)
\* the request got a maintenance response, from whichever strategy
MaintenanceServed == RequestServed /\ reason.rule = "maintenance"

\* the four headers as the client reads them off the response
StandardHeadersSent ==
    /\ HeaderGet(rw.sent, str_XMaintenanceMode) = str_true
    /\ HeaderGet(rw.sent, str_CacheControl) = str_noCache
    /\ HeaderGet(rw.sent, str_RetryAfter) = str_3600
    /\ HeaderGet(rw.sent, str_ContentType) = m.contentType

\* C21: every maintenance response, from every strategy and on every
\* failure path, is sent with X-Maintenance-Mode: true, Cache-Control:
\* no-cache, no-store, must-revalidate, Retry-After: 3600 and the configured
\* content type as its Content-Type.
C21_FourStandardHeaders == MaintenanceServed => StandardHeadersSent

(***************************************************************************)
(* The dispatch to a content strategy.                                     *)
(***************************************************************************)
\* the calls ServeHTTP makes on the writer before it dispatches
HeaderCalls == [i \in 1..4 |-> <<Middleware, "Header.Set">>]

\* the calls of a strategy that writes the status line and one body itself
StatusThenBody == << <<Middleware, "WriteHeader">>, <<Middleware, "Write">> >>

\* the inline strategy ran, and no other: the configured status, then the
\* configured content as the one body; no load of the file, no request to
\* the service.  When the write fails the calls are the same, nothing
\* reaches the client, and the failure is logged
InlineRan ==
    /\ rw.code = m.statusCode
    /\ rw.calls = HeaderCalls \o StatusThenBody
    /\ rw.body = (IF clientGone THEN <<>> ELSE <<m.maintenanceContent>>)
    /\ logged = (IF clientGone /\ m.logLevel >= LogLevelError
                 THEN <<"Error writing maintenance content">> ELSE <<>>)
    /\ m = loadTrace.m /\ ~loadTrace.read
    /\ proxyReq = NoRequest

\* the file strategy ran, and no other: the response is the cached bytes, or
\* the failure body of a load that failed; no request to the service
FileRan ==
    /\ rw.code = m.statusCode
    /\ \/ /\ rw.calls = HeaderCalls \o StatusThenBody
          /\ rw.body = <<m.maintenanceFileContent>>
          /\ logged = <<>>
       \/ /\ ReloadFailed
          /\ rw.body = <<FileErrorBody>>
    /\ proxyReq = NoRequest

\* the service strategy ran, and no other: one request went to the service,
\* no load of the file
ProxyRan ==
    /\ rw.code = m.statusCode
    /\ proxyReq # NoRequest
    /\ proxyReq.URL.Host = m.maintenanceService.Host
    /\ m = loadTrace.m /\ ~loadTrace.read
    /\ rw.body = (IF backend.err THEN <<UnavailableBody>>
                  ELSE IF backend.body = "" THEN <<>> ELSE <<backend.body>>)

\* the fallback ran: the configured status and the generic body
FallbackRan ==
    /\ rw.code = m.statusCode
    /\ rw.calls = HeaderCalls \o StatusThenBody
    /\ rw.body = <<UnavailableBody>>
    /\ logged = <<>>
    /\ m = loadTrace.m /\ ~loadTrace.read
    /\ proxyReq = NoRequest

\* C22: for a request that gets the maintenance response exactly one content
\* writer runs and the downstream handler does not: the inline strategy if
\* the inline content is non-empty, else the file strategy if a file path is
\* set, else the service strategy if a service address is set, else the
\* fallback with the configured status code and the body "Service
\* temporarily unavailable".  The inline strategy writes the configured
\* status and then the configured content as it is; when that write fails
\* the calls on the writer are the same and the failure is logged.
C22_StrategyDispatch ==
    MaintenanceServed =>
        /\ nextCalls = <<>>
        /\ IF m.maintenanceContent # "" THEN InlineRan
           ELSE IF m.maintenanceFilePath # "" THEN FileRan
           ELSE IF ~m.maintenanceService.nil THEN ProxyRan
           ELSE FallbackRan

\* an instance with inline content and a file path serves a client that is
\* gone: the write of the inline content fails
C22_Witness ==
    /\ MaintenanceServed
    /\ m.maintenanceContent # ""
    /\ m.maintenanceFilePath # ""
    /\ clientGone
    /\ InlineRan
    /\ logged # <<>>

(***************************************************************************)
(* getJWTClaimValue on its own: tokens as the tests build them, a header   *)
(* and a signature around the unpadded URL-safe base64 of a JSON text.     *)
(***************************************************************************)
\* the code of a printable ASCII character
CharToByte(c) == IndexOf(Ascii, c) + 31

\* two to the power 10 - r, for the bit offsets r a character can have
Base64Shift(r) == IF r = 0 THEN 1024 ELSE IF r = 2 THEN 256 ELSE IF r = 4 THEN 64 ELSE 16

\* Character k (from 0) of the encoding: the six bits at bit offset 6k of
\* the bytes, which lie in bytes i and i+1, i = 6k div 8; past the last
\* byte the bits are zero
Base64Char(bytes, k) ==
    LET i == (6 * k) \div 8
        v == CharToByte(bytes[i + 1]) * 256
             + (IF i + 2 <= Len(bytes) THEN CharToByte(bytes[i + 2]) ELSE 0)
    IN Base64URLAlphabet[((v \div Base64Shift((6 * k) % 8)) % 64) + 1]

\* base64.RawURLEncoding.EncodeToString
Base64RawURLEncode(bytes) ==
    [k \in 1..((8 * Len(bytes) + 5) \div 6) |-> Base64Char(bytes, k - 1)]

payload_roleAdmin ==
    <<"{", "\"", "r", "o", "l", "e", "\"", ":", "\"", "a", "d", "m", "i", "n", "\"", "}">>

payload_activeTrue ==
    <<"{", "\"", "a", "c", "t", "i", "v", "e", "\"", ":", "t", "r", "u", "e", "}">>

payload_activeFalse ==
    <<"{", "\"", "a", "c", "t", "i", "v", "e", "\"", ":", "f", "a", "l", "s", "e", "}">>

\* the claims role, id and active are absent
payload_subOnly == <<"{", "\"", "s", "u", "b", "\"", ":", "\"", "x", "\"", "}">>

\* JSON values that are no object
payload_array == <<"[", "\"", "a", "d", "m", "i", "n", "\"", "]">>

payload_string == <<"\"", "a", "d", "m", "i", "n", "\"">>

payload_number == <<"2", "5">>

payload_null == <<"n", "u", "l", "l">>

\* the claim present with a value that is no string, number or bool
payload_roleNull == <<"{", "\"", "r", "o", "l", "e", "\"", ":", "n", "u", "l", "l", "}">>

payload_roleMap ==
    <<"{", "\"", "r", "o", "l", "e", "\"", ":", "{", "\"", "n", "e", "s", "t", "e", "d", "\"",
      ":", "\"", "v", "a", "l", "u", "e", "\"", "}", "}">>

\* no JSON at all
payload_unclosed ==
    <<"{", "\"", "r", "o", "l", "e", "\"", ":", "\"", "a", "d", "m", "i", "n", "\"">>

payload_twoClaims ==
    <<"{", "\"", "r", "o", "l", "e", "\"", ":", "\"", "a", "d", "m", "i", "n", "\"", ",", "\"",
      "i", "d", "\"", ":", "2", "5", "}">>

payload_fraction == <<"{", "\"", "i", "d", "\"", ":", "1", ".", "5", "}">>

payload_idString == <<"{", "\"", "i", "d", "\"", ":", "\"", "2", "5", "\"", "}">>

\* claim names
str_id == <<"i", "d">>

str_active == <<"a", "c", "t", "i", "v", "e">>

\* the first and the third segment of the tokens of the tests
str_header == <<"h", "e", "a", "d", "e", "r">>

str_signature == <<"s", "i", "g", "n", "a", "t", "u", "r", "e">>

\* tokens that are refused before the payload is read
token_invalid == <<"i", "n", "v", "a", "l", "i", "d", ".", "t", "o", "k", "e", "n">>

\* base64 that decodes to bytes that are no JSON
token_invalidBase64 ==
    <<"h", "e", "a", "d", "e", "r", ".", "i", "n", "v", "a", "l", "i", "d", "_", "b", "a", "s",
      "e", "6", "4", ".", "s", "i", "g", "n", "a", "t", "u", "r", "e">>

\* a padded payload
token_padded ==
    <<"h", "e", "a", "d", "e", "r", ".", "e", "3", "0", "=", ".", "s", "i", "g", "n", "a", "t",
      "u", "r", "e">>

token_fourSegments ==
    <<"h", "e", "a", "d", "e", "r", ".", "e", "3", "0", ".", "s", "i", "g", "n", "a", "t", "u",
      "r", "e", ".", "x">>

token_emptyPayload ==
    <<"h", "e", "a", "d", "e", "r", ".", ".", "s", "i", "g", "n", "a", "t", "u", "r", "e">>

\* the start of a payload with a numeric id
payload_idOpen == <<"{", "\"", "i", "d", "\"", ":">>

\* "header." + encodedPayload + ".signature"
TestToken(payload) ==
    str_header \o <<".">> \o Base64RawURLEncode(payload) \o <<".">> \o str_signature

\* the most decimal digits of a numeric claim
MaxDigits == 7

RECURSIVE Pow10(_)
Pow10(k) == IF k = 0 THEN 1 ELSE 10 * Pow10(k - 1)

\* the non-negative integers a numeric claim takes: those of the tests, and
\* the least and the greatest of every number of digits
ClaimNumbers ==
    {0, 25, 12345}
    \cup { Pow10(k) : k \in 0..(MaxDigits - 1) }
    \cup { Pow10(k) - 1 : k \in 1..MaxDigits }

\* {"id":n}
NumberPayload(n) == payload_idOpen \o NatToChars(n) \o <<"}">>

NumberTokens == { TestToken(NumberPayload(n)) : n \in ClaimNumbers }

ExtractorPayloads ==
    { payload_roleAdmin, payload_activeTrue, payload_activeFalse, payload_subOnly,
      payload_array, payload_string, payload_number, payload_null, payload_roleNull,
      payload_roleMap, payload_unclosed, payload_twoClaims, payload_fraction,
      payload_idString }

ExtractorTokens ==
    { TestToken(p) : p \in ExtractorPayloads }
    \cup NumberTokens
    \cup { Empty, token_invalid, token_invalidBase64, token_padded, token_fourSegments,
           token_emptyPayload }

ExtractorClaims == {str_role, str_id, str_active}

\* a call that has not returned
Pending(token, claimName) ==
    [ nil |-> FALSE, tokenString |-> token, claimName |-> claimName,
      returned |-> FALSE, value |-> Empty, err |-> ErrNil ]

InitExtractor ==
    /\ config = CreateConfig
    /\ changes = 0
    /\ file = NoFile
    /\ pc = "init"
    /\ m = NilInstance
    /\ newErr = ErrNil
    /\ fileChanges = 0
    /\ sameModTime = FALSE
    /\ NoRequestYet
    /\ WriterUnused
    /\ WorkersUnused
    /\ \E t \in ExtractorTokens : \E c \in ExtractorClaims :
        extractor = Pending(t, c)

\* value, err := m.getJWTClaimValue(tokenString, claimName)
CallGetJWTClaimValue ==
    /\ ~extractor.returned
    /\ \E r \in {getJWTClaimValue(extractor.tokenString, extractor.claimName)} :
        extractor' = [extractor EXCEPT !.returned = TRUE, !.value = r.value, !.err = r.err]
    /\ UNCHANGED <<config, changes, file, pc, m, newErr, fileChanges, sameModTime, requestVars,
                   writerVars, concVars>>

NextExtractor == CallGetJWTClaimValue

SpecExtractor == InitExtractor /\ [][NextExtractor]_vars

(***************************************************************************)
(* The claim extractor.                                                    *)
(***************************************************************************)
\* getJWTClaimValue has returned
Extracted == ~extractor.nil /\ extractor.returned

\* the dot-separated segments of the token
Segments == Split(extractor.tokenString, ".")

\* the bytes are one JSON object and nothing else
IsJSONObject(bytes) ==
    /\ ParseValue(bytes, 1).ok
    /\ SkipSpace(bytes, ParseValue(bytes, 1).pos) = Len(bytes) + 1
    /\ ParseValue(bytes, 1).v.t = "object"

\* the object has a member of that name
HasClaim(bytes, name) ==
    \E i \in 1..Len(ParseValue(bytes, 1).v.o) : ParseValue(bytes, 1).v.o[i].k = name

\* one of the four failure cases
ExtractionFails ==
    \/ Len(Segments) # 3
    \/ Base64RawURLDecode(Segments[2]).err
    \/ ~IsJSONObject(Base64RawURLDecode(Segments[2]).bytes)
    \/ ~HasClaim(Base64RawURLDecode(Segments[2]).bytes, extractor.claimName)

\* other first and third segments a token can have
OtherSegments == {Empty, <<"x">>, <<"e", "3", "0">>}

\* the same payload between any other header and signature gives the same
\* value and error
HeaderAndSignatureIgnored ==
    \A h \in OtherSegments : \A sg \in OtherSegments :
        getJWTClaimValue(h \o <<".">> \o Segments[2] \o <<".">> \o sg, extractor.claimName)
        = ClaimResult(extractor.value, extractor.err)

\* C23: getJWTClaimValue returns an error and the empty string when the
\* token does not split into exactly three dot-separated segments, when the
\* second segment is not unpadded URL-safe base64, when the decoded payload
\* is not a JSON object, and when the named claim is absent; in every other
\* case it returns a value and no error; and the first and third segments
\* have no part in the result.
C23_ExtractorFailureCases ==
    Extracted =>
        /\ ExtractionFails => (extractor.err # ErrNil /\ extractor.value = Empty)
        /\ ~ExtractionFails => extractor.err = ErrNil
        /\ Len(Segments) = 3 => HeaderAndSignatureIgnored

\* a token of three segments whose payload is the JSON text null
C23_Witness ==
    /\ Extracted
    /\ extractor.tokenString = TestToken(payload_null)
    /\ Len(Segments) = 3
    /\ ~Base64RawURLDecode(Segments[2]).err
    /\ extractor.err # ErrNil
    /\ extractor.value = Empty

\* the value of the named claim as json.Unmarshal left it in the map
ClaimSent ==
    MapGet(ParseValue(Base64RawURLDecode(Segments[2]).bytes, 1).v.o, extractor.claimName)

\* the token is {"id":n} between a header and a signature, and id is asked
NumericClaimAsked(n) ==
    /\ extractor.tokenString = TestToken(NumberPayload(n))
    /\ extractor.claimName = str_id

\* C24: a string claim is returned unchanged, a boolean claim as "true" or
\* "false", and a numeric claim that is a non-negative integer n as the plain
\* decimal digits of n, for every such n.
C24_ClaimStringification ==
    (Extracted /\ ~ExtractionFails) =>
        /\ extractor.err = ErrNil
        /\ ClaimSent.t = "string" => extractor.value = ClaimSent.s
        /\ ClaimSent.t = "bool" =>
                extractor.value = (IF ClaimSent.b THEN str_true ELSE str_false)
        /\ \A n \in ClaimNumbers :
                NumericClaimAsked(n) => extractor.value = NatToChars(n)

(***************************************************************************)
(* The bearer prefix.                                                      *)
(***************************************************************************)
\* the request's value for the JWT header
AuthHeaderSent == HeaderGet(request.Header, m.bypassJWTTokenHeader)

\* the value starts with "bearer " in some letter casing
BearerPrefixed ==
    /\ m.bypassJWTTokenHeader # Empty
    /\ Len(AuthHeaderSent) >= 7
    /\ ToLower(SubSeq(AuthHeaderSent, 1, 7)) = str_bearer

\* what follows the seven characters of the prefix
AfterPrefix == SubSeq(AuthHeaderSent, 8, Len(AuthHeaderSent))

\* the request that differs in the value of the JWT header alone: what
\* follows the prefix, without the prefix
WithoutPrefix ==
    [request EXCEPT !.Header = HeaderSet(request.Header, m.bypassJWTTokenHeader, AfterPrefix)]

\* what the instance, as the request found it, does with that other request
DecisionWithoutPrefix ==
    ServeHTTP(loadTrace.m, NewRecorder, WithoutPrefix, file, backend, clientGone)

\* C25: a request whose JWT header value is "bearer " in any letter casing
\* followed by t gets the decision (passed through or not, and by which
\* rule) of the request that differs only in having t alone as the value;
\* the token parsed is the value without its first seven characters, with
\* nothing else altered.
C25_BearerEquivalence ==
    (RequestServed /\ BearerPrefixed) =>
        /\ PassedThrough <=> DecisionWithoutPrefix.nextCalls # <<>>
        /\ reason = DecisionWithoutPrefix.reason
        /\ TokenSent = AfterPrefix

\* "bEARER " before a token with the expected claim value: the JWT rule
\* lets the request through
C25_Witness ==
    /\ RequestServed
    /\ BearerPrefixed
    /\ SubSeq(AuthHeaderSent, 1, 7) = <<"b", "E", "A", "R", "E", "R", " ">>
    /\ reason.rule = "jwt"
    /\ PassedThrough
    /\ DecisionWithoutPrefix.reason.rule = "jwt"

(***************************************************************************)
(* The order of the bypass rules.                                          *)
(***************************************************************************)
\* the first rule, in the order enablement, favicon, path, header, JWT, that
\* settles the request; "maintenance" when none does
FirstRule ==
    IF ~EffectivelyEnabled THEN "disabled"
    ELSE IF FaviconRule THEN "favicon"
    ELSE IF PathRule THEN "path"
    ELSE IF HeaderRule THEN "header"
    ELSE IF JWTRule THEN "jwt"
    ELSE "maintenance"

\* the bypass path that is reported is a prefix of the request path and no
\* path before it in the list is one
FirstPathReported ==
    \E i \in 1..Len(m.bypassPaths) :
        /\ reason.path = m.bypassPaths[i]
        /\ HasPrefix(request.URL.Path, m.bypassPaths[i])
        /\ \A j \in 1..(i - 1) : ~HasPrefix(request.URL.Path, m.bypassPaths[j])

InRequest(g) == workers[g].pc \notin {"idle", "done"}

\* the goroutine has answered its request: a status code and a body
Answered(g) ==
    /\ workers[g].pc = "done"
    /\ workers[g].code = m.statusCode
    /\ workers[g].body # <<>>

\* the stat, compare, read and swap of a load run with exclusive access: the
\* goroutine holds the mutex, and no other load and no reader of the cache
\* is under way
LoadsExclusive ==
    \A g \in Goroutines :
        InExclusiveSection(g) =>
            /\ fileMutex = g
            /\ \A h \in Goroutines \ {g} : ~InExclusiveSection(h) /\ ~ReadLocked(h)

\* a reader holds the mutex shared: not exclusively
ReadersShared == \A g \in Goroutines : ReadLocked(g) => fileMutex # g

\* the mutex is given up on every path out of the load, the error returns
\* included: it is held by a goroutine inside the section only
ReleasedOnReturn ==
    \A g \in Goroutines : fileMutex = g => InExclusiveSection(g)

\* some goroutine with a request can take a step
SomeRequestCanStep == \E g \in Goroutines : ENABLED (Lock(g) \/ RLock(g) \/ Run(g))

\* C27: the load runs with exclusive access (no other load and no reader of
\* the cached bytes overlaps it), readers take shared access only, and the
\* mutex is released on every path, error returns included; so with any
\* goroutines serving file-strategy requests at once there is no deadlock,
\* and every request is answered in the end.
C27_LockDisciplineAndProgress ==
    /\ [](LoadsExclusive /\ ReadersShared /\ ReleasedOnReturn)
    /\ []((\E g \in Goroutines : InRequest(g)) => SomeRequestCanStep)
    /\ \A g \in Goroutines : InRequest(g) ~> Answered(g)

\* two goroutines hold the mutex shared at the same time
C27_Witness ==
    \E g, h \in Goroutines :
        /\ g # h
        /\ ReadLocked(g)
        /\ ReadLocked(h)

(***************************************************************************)
(* One outcome for every request.                                          *)
(***************************************************************************)
\* the middleware has called nothing on the response writer
NoMaintenanceOutput ==
    /\ \A i \in 1..Len(rw.calls) : rw.calls[i][1] = NextHandler
    /\ HeaderGet(rw.sent, str_XMaintenanceMode) = Empty

\* the middleware has written a response: the four headers set, then the
\* status line with the configured code
MaintenanceOutput ==
    /\ Len(rw.calls) > 4
    /\ SubSeq(rw.calls, 1, 4) = HeaderCalls
    /\ \E i \in 5..Len(rw.calls) : rw.calls[i] = <<Middleware, "WriteHeader">>
    /\ rw.wroteHeader
    /\ rw.code = m.statusCode

\* C28: for every request and configuration ServeHTTP either calls the
\* downstream handler exactly once and writes no maintenance output, or
\* writes a maintenance response and does not call the downstream handler;
\* never both, never neither.
C28_ExactlyOneOutcome ==
    RequestServed =>
        /\ \/ Len(nextCalls) = 1 /\ NoMaintenanceOutput
           \/ nextCalls = <<>> /\ MaintenanceOutput
        /\ ~(nextCalls # <<>> /\ MaintenanceOutput)

\* the service strategy with a maintenance service that cannot be reached:
\* the response is the middleware's, the handler is not called
C28_Witness ==
    /\ RequestServed
    /\ ServiceStrategyServed
    /\ backend.err
    /\ nextCalls = <<>>
    /\ MaintenanceOutput
    /\ logged # <<>>

\* what New did with the sources of an accepted configuration, read off the
\* instance it returned: the file was loaded into the cache, the service
\* address was parsed into a URL
FileLoadedByNew == loadTrace.m.maintenanceFileContent # NilBytes

ServiceParsedByNew == ~loadTrace.m.maintenanceService.nil

\* the source a maintenance response was served from, read off the response
ServedFromInline ==
    /\ proxyReq = NoRequest
    /\ ~loadTrace.read
    /\ rw.body \in {<<>>, <<m.maintenanceContent>>}
    /\ m.maintenanceContent # ""

ServedFromFile ==
    /\ proxyReq = NoRequest
    /\ rw.body \in {<<m.maintenanceFileContent>>, <<FileErrorBody>>}
    /\ ~ServedFromInline

ServedFromService == proxyReq # NoRequest

\* C29: for every configuration accepted by New, a maintenance response is
\* served from the source New examined at construction: from the file exactly
\* when New loaded the file, from the service exactly when New parsed the
\* service address, and from the inline content only when New examined
\* neither of the two.
C29_ServedFromExaminedSource ==
    (MaintenanceServed /\ newErr = ErrNil) =>
        /\ FileLoadedByNew <=> ServedFromFile
        /\ ServiceParsedByNew <=> ServedFromService
        /\ ServedFromInline => ~FileLoadedByNew /\ ~ServiceParsedByNew

\* no goroutine is inside loadMaintenanceFile
NoReloadInProgress == \A g \in Goroutines : ~InExclusiveSection(g)

\* the cache holds bytes, and at least one
CacheNonEmpty == m.maintenanceFileContent \notin {NilBytes, ""}

\* the cache carries the modification time the file has now
CacheTimestampCurrent ==
    /\ file.exists
    /\ m.maintenanceFileLastMod = file.modTime

\* C30: after a successful construction with a file path, under any
\* interleaving of requests and file changes, failed reloads included, the
\* cached bytes are non-empty, the cached timestamp never decreases, and
\* whenever no reload is in progress and the cached timestamp equals the
\* file's modification time the cached bytes are the file's content,
\* provided every write of the file has advanced its modification time.
C30_FileCacheInvariant ==
    /\ [](CacheNonEmpty)
    /\ [][m'.maintenanceFileLastMod >= m.maintenanceFileLastMod]_vars
    /\ []((NoReloadInProgress /\ CacheTimestampCurrent /\ ~sameModTime)
            => m.maintenanceFileContent = file.content)

\* a reload has failed and its request is answered, a later reload has
\* succeeded, and the cache carries the file's modification time
C30_Witness ==
    /\ \E g \in Goroutines : workers[g].pc = "done" /\ workers[g].err
    /\ m.maintenanceFileLastMod > DefaultFile.modTime
    /\ NoReloadInProgress
    /\ CacheTimestampCurrent
    /\ ~sameModTime
    /\ m.maintenanceFileContent = file.content

=============================================================================
